---- MODULE Spec2Model ----
(***************************************************************************)
(* Era Inventory API: tenant isolation, asset model with trigger-kept      *)
(* counters, user management and the pooled tenant variable.               *)
(*                                                                         *)
(* The database is modelled at statement granularity: every SQL statement  *)
(* of a handler runs on one pooled connection, sees the rows the           *)
(* row-security policies of the migrations let that connection see, and    *)
(* is atomic together with the triggers it fires (autocommit).  Handlers   *)
(* open no transaction, so a handler is a sequence of such statements.     *)
(***************************************************************************)
EXTENDS Integers, FiniteSets, Sequences, TLC

\* ---------------------------------------------------------------- bounds
MaxAssetId == 1
MaxUserId  == 2
MaxSiteId  == 3
MaxImports == 2
MaxListRows == 2

\* ------------------------------------------------------- program constants
MainTenant == 1

\* ----------------------------------------------------------- enumerations
Orgs       == {1, 2, 42}
Conns      == {1, 2}
AssetTypes == {"switch", "vlan"}
VlanIds    == {10}
Unset      == 0               \* app.current_org_id never SET on the session
NoConn     == 0               \* no *sql.Conn under dbConnKey / nil *sql.Conn
Null       == ""              \* a NULL column; an empty or absent cell
NotGiven   == "-"             \* a nil *string field of an update request

Reqs       == {1, 2}          \* requests the server handles at once

VARIABLES
    rls,          \* RLS_ENABLED == "true"
    policy,       \* the DB role is subject to the row-security policies
    connVar,      \* connection -> value of app.current_org_id on that session
    orgs,         \* organizations.id
    sites,        \* rows of sites: [id, org, name]
    nextSiteId,   \* sites_id_seq
    assets,       \* rows of assets: [id, org, site, type, name, ip, extras]
    nextAssetId,  \* assets_id_seq
    switches,     \* asset_switches.asset_id
    vlans,        \* rows of asset_vlans: [asset, vlan]
    counters,     \* rows of site_asset_categories: [org, site, type, n]
    users,        \* rows of users: [id, org, roles, active]
    nextUserId,   \* users_id_seq
    inflight,     \* per concurrent request: [pc, op, org, conn]
    imp,          \* the ImportExcel call in progress, and its summary
    jwtManager,   \* the process: not started, refused to start, or serving
    gate,         \* the last request through AuthMiddleware / MustRole
    resp          \* what the last request was and how it was answered

vars == <<rls, policy, connVar, orgs, sites, nextSiteId, assets, nextAssetId,
          switches, vlans, counters, users, nextUserId, inflight, imp, jwtManager,
          gate, resp>>

\* ------------------------------------------------------------- responses
\* pageInfo of the list envelope; n is len(data)
NoPage == [limit |-> 0, offset |-> 0, total |-> 0, n |-> 0]

Row(id, org, site, type, n) ==
    [id |-> id, org |-> org, site |-> site, type |-> type, n |-> n]

\* op, org: the handler and the org_id of the request context; id: the row
\* addressed or created; arg: the org named in the body; filter: the type=
\* query parameter of a list request; stage: where the handler returned
Resp(op, org, id, status, stage, rows) ==
    [op |-> op, org |-> org, id |-> id, arg |-> 0, status |-> status,
     stage |-> stage, rows |-> rows, page |-> NoPage, filter |-> NotGiven]

RespArg(r, a) == [r EXCEPT !.arg = a]

\* req.Extras: nil, or a JSON object as its set of <<key, value>> members
NilExtras == [given |-> FALSE, m |-> {}]
Extras(m) == [given |-> TRUE, m |-> m]

AssetRow(a) ==
    [id |-> a.id, org |-> a.org, site |-> a.site, type |-> a.type, n |-> 0,
     extras |-> a.extras]

\* ------------------------------------------------- row-security policies
\* current_setting('app.current_org_id') raises when the session never SET it
StmtError(c) == policy /\ connVar[c] = Unset

\* tenant_isolation_assets / _sites / _users / _site_asset_categories
RowVisible(c, org) ==
    \/ ~policy
    \/ connVar[c] = MainTenant
    \/ org = connVar[c]

\* tenant_isolation_asset_switches / _asset_vlans: no main-tenant branch
SubRowVisible(c, org) ==
    \/ ~policy
    \/ org = connVar[c]

\* ------------------------------------------------------ connection choice
rlsEnabled == rls

\* ctxConn is ctx.Value(dbConnKey); pool is the connection the pool hands out
dbFrom(ctxConn, pool) ==
    IF ~rlsEnabled THEN pool
    ELSE IF ctxConn # NoConn THEN ctxConn
    ELSE pool

\* ------------------------------------------------------ counter trigger
CountAssets(A, o, s, t) ==
    Cardinality({a \in A : a.org = o /\ a.site = s /\ a.type = t})

\* INSERT .. SELECT COUNT(*) .. ON CONFLICT DO UPDATE, run as the invoker
refresh_site_asset_categories(A, C, c, o, s, t) ==
    LET seen == {a \in A : RowVisible(c, a.org)}
    IN  {r \in C : ~(r.org = o /\ r.site = s /\ r.type = t)}
            \cup {Row(0, o, s, t, CountAssets(seen, o, s, t))}

\* the trigger without its refresh of the OLD coordinates on UPDATE
trg_assets_refresh_counts_newOnly(tgop, old, new, A, C, c) ==
    IF tgop = "DELETE" THEN
        refresh_site_asset_categories(A, C, c, old.org, old.site, old.type)
    ELSE
        refresh_site_asset_categories(A, C, c, new.org, new.site, new.type)

\* AFTER INSERT OR UPDATE OR DELETE ... FOR EACH ROW
trg_assets_refresh_counts(tgop, old, new, A, C, c) ==
    IF tgop = "INSERT" THEN
        refresh_site_asset_categories(A, C, c, new.org, new.site, new.type)
    ELSE IF tgop = "UPDATE" THEN
        LET C1 == IF <<old.org, old.site, old.type>> # <<new.org, new.site, new.type>>
                  THEN refresh_site_asset_categories(A, C, c, old.org, old.site, old.type)
                  ELSE C
        IN  refresh_site_asset_categories(A, C1, c, new.org, new.site, new.type)
    ELSE
        refresh_site_asset_categories(A, C, c, old.org, old.site, old.type)

\* ux_vlan_per_site on (vlan_id, site of the asset, org of the asset)
VlanTaken(A, V, o, s, v, self) ==
    \E x \in V : /\ x.asset # self
                 /\ x.vlan = v
                 /\ \E a \in A : a.id = x.asset /\ a.org = o /\ a.site = s

SiteIdsOf(S) == {s.id : s \in S}

\* -------------------------------------------------------------- seeding
SeedSites == {[id |-> 1, org |-> 1, name |-> "a"]}

Idle == [pc |-> "idle", op |-> "", org |-> 0, conn |-> NoConn]

NoResp == Resp("none", 0, 0, 0, "none", {})

\* SheetSummary and the totals of ImportSummary; samples holds RowError.Row
NoSheetSummary ==
    [inserted |-> 0, updated |-> 0, skipped |-> 0, errors |-> 0, samples |-> <<>>]

NoTotals == [inserted |-> 0, updated |-> 0, skipped |-> 0, errors |-> 0]

\* no ImportExcel call has been made yet
NoImport ==
    [pc |-> "idle", opts |-> [org |-> 0, site |-> 0, dry |-> FALSE, maxErrors |-> 0,
                              noRowsIsSql |-> FALSE],
     file |-> <<>>, si |-> 0, ri |-> 0, cur |-> NoSheetSummary, sheets |-> <<>>,
     total |-> NoTotals, err |-> FALSE,
     before |-> [assets |-> {}, counters |-> {}, nextId |-> 1], runs |-> 0]

\* main has not run yet
NoManager ==
    [pc |-> "init", environment |-> "", secret |-> [len |-> 0, default |-> FALSE],
     issuer |-> "", audience |-> "", expiry |-> 0]

\* a bearer token: its length, the number of segments strings.Split gives,
\* what jwt.ParseWithClaims answers for it (Null for no error) and the claims
\* it carries
Token(size, segs, parse, user, org, roles, issuer) ==
    [size |-> size, segs |-> segs, parse |-> parse, user |-> user,
     org |-> org, roles |-> roles, issuer |-> issuer]

NoToken == Token(0, 1, "token is malformed", 0, 0, {}, "")

\* no request has reached AuthMiddleware yet
NoRequest ==
    [path |-> "", header |-> "", token |-> NoToken, declared |-> {}, roles |-> {},
     claims |-> FALSE, parsed |-> FALSE, next |-> FALSE, status |-> 0,
     code |-> "", guard |-> "none"]

InitCommon ==
    /\ rls \in BOOLEAN
    /\ policy \in BOOLEAN
    /\ orgs = Orgs
    /\ sites = SeedSites
    /\ nextSiteId = 2
    /\ assets = {}
    /\ nextAssetId = 1
    /\ switches = {}
    /\ vlans = {}
    /\ counters = {}
    /\ inflight = [r \in Reqs |-> Idle]
    /\ imp = NoImport
    /\ jwtManager = NoManager
    /\ gate = NoRequest
    /\ resp = NoResp

\* Requests of this specification run one at a time, so database/sql keeps
\* handing out the one connection it has opened (Pooled).  With RLS_ENABLED
\* that session keeps whatever an earlier withDBConn SET on it (SpecUsers
\* reaches every value); the value matters only under the policies.
Pooled == 1

PoolInit ==
    /\ connVar \in [Conns -> {Unset} \cup Orgs]
    /\ \A c \in Conns \ {Pooled} : connVar[c] = Unset
    /\ ~(rls /\ policy) => connVar[Pooled] = Unset

Init ==
    /\ InitCommon
    /\ users = {}
    /\ nextUserId = 1
    /\ PoolInit

\* ------------------------------------------------------------ frames
AssetFrame == UNCHANGED <<rls, policy, connVar, orgs, sites, nextSiteId,
                          users, nextUserId, inflight, imp,
        jwtManager, gate>>
NoDataChange == UNCHANGED <<assets, nextAssetId, switches, vlans, counters>>
SiteFrame == UNCHANGED <<rls, policy, connVar, orgs, assets, nextAssetId,
                         switches, vlans, counters, users, nextUserId,
                         inflight, imp,
        jwtManager, gate>>
UserFrame == UNCHANGED <<rls, policy, orgs, sites, nextSiteId, assets,
                         nextAssetId, switches, vlans, counters, inflight, imp,
        jwtManager, gate>>

\* ============================================================ assets.go
\* the WHERE clause without its org_id conjunct
AssetHit_idOnly(A, g, id, q) ==
    {a \in A : a.id = id /\ RowVisible(q, a.org)}

\* ... WHERE id = $n AND org_id = $m, under the policy of the session q
AssetHit(A, g, id, q) ==
    {a \in A : a.id = id /\ a.org = g /\ RowVisible(q, a.org)}

\* the handler's q is the pool: no request context carries dbConnKey
createAsset(g, site, type, ipOK, sw, vl, extras, c1, c2, c3) ==
    /\ AssetFrame
    /\ LET id   == nextAssetId
           new  == [id |-> id, org |-> g, site |-> site, type |-> type,
                    name |-> Null, ip |-> Null,
                    extras |-> IF extras.given THEN extras.m ELSE {}]
           A1   == assets \cup {new}
           C1   == trg_assets_refresh_counts("INSERT", new, new, A1, counters, c1)
           q1   == dbFrom(NoConn, c1)
           q2   == dbFrom(NoConn, c2)
           q3   == dbFrom(NoConn, c3)
           swFails == StmtError(q2) \/ ~SubRowVisible(q2, g)
           vlFails == \/ StmtError(q3) \/ ~SubRowVisible(q3, g)
                      \/ ~vl.ok
                      \/ VlanTaken(A1, vlans, g, site, vl.vlan, id)
       IN
       IF site = 0 \/ type = "" \/ ~ipOK THEN
           /\ NoDataChange
           /\ resp' = Resp("createAsset", g, 0, 400, "validate", {})
       ELSE IF \/ StmtError(q1) \/ ~RowVisible(q1, g)
               \/ site \notin SiteIdsOf(sites) \/ g \notin orgs THEN
           /\ nextAssetId' = id + 1
           /\ UNCHANGED <<assets, switches, vlans, counters>>
           /\ resp' = Resp("createAsset", g, id, 500, "asset", {})
       ELSE
           /\ nextAssetId' = id + 1
           /\ assets' = A1
           /\ counters' = C1
           /\ IF sw /\ swFails THEN
                  /\ UNCHANGED <<switches, vlans>>
                  /\ resp' = Resp("createAsset", g, id, 500, "switch", {})
              ELSE IF vl.given /\ vlFails THEN
                  /\ switches' = IF sw THEN switches \cup {id} ELSE switches
                  /\ UNCHANGED vlans
                  /\ resp' = Resp("createAsset", g, id, 500, "vlan", {})
              ELSE
                  /\ switches' = IF sw THEN switches \cup {id} ELSE switches
                  /\ vlans' = IF vl.given
                              THEN vlans \cup {[asset |-> id, vlan |-> vl.vlan]}
                              ELSE vlans
                  /\ resp' = Resp("createAsset", g, id, 201, "done", {AssetRow(new)})

updateAsset(g, id, newType, ip, sw, vl, extras, c1, c2, c3) ==
    /\ AssetFrame
    /\ UNCHANGED nextAssetId
    /\ LET q1  == dbFrom(NoConn, c1)
           q2  == dbFrom(NoConn, c2)
           q3  == dbFrom(NoConn, c3)
           hit == AssetHit(assets, g, id, q1)
       IN
       IF ip = "bad" THEN
           /\ UNCHANGED <<assets, switches, vlans, counters>>
           /\ resp' = Resp("updateAsset", g, id, 400, "validate", {})
       ELSE IF newType = NotGiven /\ ip = "none" /\ ~extras.given THEN
           /\ UNCHANGED <<assets, switches, vlans, counters>>
           /\ resp' = Resp("updateAsset", g, id, 400, "validate", {})
       ELSE IF StmtError(q1) THEN
           /\ UNCHANGED <<assets, switches, vlans, counters>>
           /\ resp' = Resp("updateAsset", g, id, 500, "asset", {})
       ELSE IF hit = {} THEN
           /\ UNCHANGED <<assets, switches, vlans, counters>>
           /\ resp' = Resp("updateAsset", g, id, 404, "asset", {})
       ELSE
           LET old == CHOOSE a \in hit : TRUE
               new == [old EXCEPT
                          !.type   = IF newType = NotGiven THEN @ ELSE newType,
                          !.extras = IF extras.given THEN extras.m ELSE @]
               A1  == (assets \ {old}) \cup {new}
               C1  == trg_assets_refresh_counts("UPDATE", old, new, A1, counters, q1)
               swFails == StmtError(q2) \/ ~SubRowVisible(q2, new.org)
               vlFails == \/ StmtError(q3) \/ ~SubRowVisible(q3, new.org)
                          \/ ~vl.ok
                          \/ VlanTaken(A1, vlans, new.org, new.site, vl.vlan, id)
           IN
           /\ assets' = A1
           /\ counters' = C1
           /\ IF sw /\ swFails THEN
                  /\ UNCHANGED <<switches, vlans>>
                  /\ resp' = Resp("updateAsset", g, id, 500, "switch", {})
              ELSE IF vl.given /\ vlFails THEN
                  /\ switches' = IF sw THEN switches \cup {id} ELSE switches
                  /\ UNCHANGED vlans
                  /\ resp' = Resp("updateAsset", g, id, 500, "vlan", {})
              ELSE
                  /\ switches' = IF sw THEN switches \cup {id} ELSE switches
                  /\ vlans' = IF vl.given
                              THEN {x \in vlans : x.asset # id}
                                     \cup {[asset |-> id, vlan |-> vl.vlan]}
                              ELSE vlans
                  /\ resp' = Resp("updateAsset", g, id, 200, "done", {AssetRow(new)})

\* ON DELETE CASCADE removes the subtype rows with the asset
deleteAsset(g, id, c) ==
    /\ AssetFrame
    /\ UNCHANGED nextAssetId
    /\ LET q   == dbFrom(NoConn, c)
           hit == AssetHit(assets, g, id, q)
       IN
       IF StmtError(q) THEN
           /\ UNCHANGED <<assets, switches, vlans, counters>>
           /\ resp' = Resp("deleteAsset", g, id, 500, "asset", {})
       ELSE IF hit = {} THEN
           /\ UNCHANGED <<assets, switches, vlans, counters>>
           /\ resp' = Resp("deleteAsset", g, id, 404, "asset", {})
       ELSE
           LET old == CHOOSE a \in hit : TRUE
               A1  == assets \ {old}
           IN
           /\ assets' = A1
           /\ switches' = switches \ {id}
           /\ vlans' = {x \in vlans : x.asset # id}
           /\ counters' = trg_assets_refresh_counts("DELETE", old, old, A1, counters, q)
           /\ resp' = Resp("deleteAsset", g, id, 204, "done", {})

\* ------------------------------------------------------------ pagination
DefaultLimit   == 50
MaxLimit       == 200
AssetsMaxLimit == 100

\* a limit= or offset= query value that strconv.Atoi accepts
QueryInt(v) == [ok |-> TRUE, v |-> v]

\* the query parameter is absent, or strconv.Atoi rejects it
NoQueryInt == [ok |-> FALSE, v |-> 0]

parseListParams(limitQ, offsetQ) ==
    [limit  |-> IF limitQ.ok /\ limitQ.v > 0
                THEN (IF limitQ.v > MaxLimit THEN MaxLimit ELSE limitQ.v)
                ELSE DefaultLimit,
     offset |-> IF offsetQ.ok /\ offsetQ.v >= 0 THEN offsetQ.v ELSE 0]

\* ORDER BY id ASC
RECURSIVE orderById(_)
orderById(S) ==
    IF S = {} THEN <<>>
    ELSE LET m == CHOOSE x \in S : \A y \in S : x.id <= y.id
         IN  <<m>> \o orderById(S \ {m})

Min(a, b) == IF a <= b THEN a ELSE b

\* the window fetching one row more than LIMIT asks for
windowed_oneMore(matching, limit, offset) ==
    LET all  == orderById(matching)
        data == SubSeq(all, offset + 1, Min(offset + limit + 1, Len(all)))
    IN  [data |-> data, totalCount |-> IF data = <<>> THEN 0 ELSE Len(all)]

\* SELECT .., COUNT(*) OVER() AS total_count .. ORDER BY id LIMIT .. OFFSET ..
\* and the rows.Next() loop: totalCount is scanned from the rows of the page
\* and keeps its zero value when the page has none
windowed(matching, limit, offset) ==
    LET all  == orderById(matching)
        data == SubSeq(all, offset + 1, Min(offset + limit, Len(all)))
    IN  [data |-> data, totalCount |-> IF data = <<>> THEN 0 ELSE Len(all)]

\* the envelope: page.limit and page.offset echo the parsed parameters
sendListResponse(r, data, total, params) ==
    [r EXCEPT !.rows = {data[i] : i \in 1..Len(data)},
              !.page = [limit |-> params.limit, offset |-> params.offset,
                        total |-> total, n |-> Len(data)]]

\* the rows of assets the WHERE clause of listAssets selects
assetsMatching(g, site, type, q) ==
    {AssetRow(a) : a \in {a \in assets :
        /\ a.org = g
        /\ (site # 0 => a.site = site)
        /\ (type # NotGiven => a.type = type)
        /\ RowVisible(q, a.org)}}

\* "Cap limit at 100"
assetsParams(limitQ, offsetQ) ==
    LET params == parseListParams(limitQ, offsetQ)
    IN  [params EXCEPT !.limit = Min(@, AssetsMaxLimit)]

\* site and type are the optional filters; 0 and NotGiven leave them out
listAssets(g, site, type, limitQ, offsetQ, c) ==
    /\ AssetFrame /\ NoDataChange
    /\ LET q      == dbFrom(NoConn, c)
           params == assetsParams(limitQ, offsetQ)
           w      == windowed(assetsMatching(g, site, type, q),
                              params.limit, params.offset)
           R(status, stage) ==
               [Resp("listAssets", g, 0, status, stage, {}) EXCEPT !.filter = type]
       IN
       IF StmtError(q) THEN
           resp' = R(500, "asset")
       ELSE
           resp' = sendListResponse(R(200, "done"), w.data, w.totalCount, params)

getAsset(g, id, c) ==
    /\ AssetFrame /\ NoDataChange
    /\ LET q   == dbFrom(NoConn, c)
           hit == AssetHit(assets, g, id, q)
       IN
       IF StmtError(q) THEN
           resp' = Resp("getAsset", g, id, 500, "asset", {})
       ELSE IF hit = {} THEN
           resp' = Resp("getAsset", g, id, 404, "asset", {})
       ELSE
           resp' = Resp("getAsset", g, id, 200, "done", {AssetRow(a) : a \in hit})

\* assets a LEFT JOIN asset_switches s / asset_vlans v; n is 1 when the
\* subtype columns of the returned row are non-null
listSubtype(op, type, g, site, c) ==
    /\ AssetFrame /\ NoDataChange
    /\ LET q == dbFrom(NoConn, c)
           joined(a) == /\ SubRowVisible(q, a.org)
                        /\ IF type = "switch" THEN a.id \in switches
                           ELSE \E x \in vlans : x.asset = a.id
       IN
       IF StmtError(q) THEN
           resp' = Resp(op, g, 0, 500, "asset", {})
       ELSE
           resp' = Resp(op, g, 0, 200, "done",
                        {Row(a.id, a.org, a.site, a.type, IF joined(a) THEN 1 ELSE 0) :
                           a \in {a \in assets :
                             /\ a.type = type
                             /\ a.org = g
                             /\ (site # 0 => a.site = site)
                             /\ RowVisible(q, a.org)}})

listSwitches(g, site, c) == listSubtype("listSwitches", "switch", g, site, c)

listVLANs(g, site, c) == listSubtype("listVLANs", "vlan", g, site, c)

getSiteAssetCategories(g, site, c) ==
    /\ AssetFrame /\ NoDataChange
    /\ LET q == dbFrom(NoConn, c)
       IN
       IF StmtError(q) THEN
           resp' = Resp("getSiteAssetCategories", g, site, 500, "asset", {})
       ELSE
           resp' = Resp("getSiteAssetCategories", g, site, 200, "done",
                        {r \in counters :
                             r.org = g /\ r.site = site /\ RowVisible(q, r.org)})

\* ------------------------------------------------------- request inputs
\* the org_id of the request context: the main tenant or a client
Callers == {1, 2}

AssetIds == 1..MaxAssetId
NoVlan   == [given |-> FALSE, vlan |-> 10, ok |-> TRUE]
VlanReqs == {NoVlan} \cup [given : {TRUE}, vlan : VlanIds, ok : BOOLEAN]

\* well-formed bodies in full, each malformed body once
CreateReqs ==
    [site : {1}, type : AssetTypes, ipOK : {TRUE}, sw : BOOLEAN, vl : VlanReqs]
    \cup {[site |-> s, type |-> t, ipOK |-> ip, sw |-> FALSE, vl |-> NoVlan] :
            <<s, t, ip>> \in {<<0, "switch", TRUE>>, <<1, "", TRUE>>,
                              <<1, "switch", FALSE>>, <<9, "switch", TRUE>>}}

UpdateReqs ==
    [type : AssetTypes, ip : {"none"}, sw : {FALSE}, vl : {NoVlan}]
    \cup [type : {NotGiven}, ip : {"ok"}, sw : BOOLEAN, vl : VlanReqs]
    \cup {[type |-> NotGiven, ip |-> ip, sw |-> FALSE, vl |-> NoVlan] :
            ip \in {"none", "bad"}}

CreateAssetStep ==
    /\ nextAssetId <= MaxAssetId
    /\ \E g \in Callers, r \in CreateReqs, c \in {Pooled} :
          createAsset(g, r.site, r.type, r.ipOK, r.sw, r.vl, NilExtras, c, c, c)

UpdateAssetStep ==
    \E g \in Callers, id \in AssetIds, r \in UpdateReqs, c \in {Pooled} :
       updateAsset(g, id, r.type, r.ip, r.sw, r.vl, NilExtras, c, c, c)

DeleteAssetStep ==
    \E g \in Callers, id \in AssetIds, c \in {Pooled} : deleteAsset(g, id, c)

ListAssetsStep ==
    \E g \in Callers, f \in {<<0, NotGiven>>, <<1, "switch">>}, c \in {Pooled} :
       listAssets(g, f[1], f[2], NoQueryInt, NoQueryInt, c)

GetAssetStep ==
    \E g \in Callers, id \in AssetIds, c \in {Pooled} : getAsset(g, id, c)

ListSwitchesStep ==
    \E g \in Callers, c \in {Pooled} : listSwitches(g, 0, c)

ListVLANsStep ==
    \E g \in Callers, c \in {Pooled} : listVLANs(g, 0, c)

GetSiteAssetCategoriesStep ==
    \E g \in Callers, site \in SiteIdsOf(SeedSites), c \in {Pooled} :
       getSiteAssetCategories(g, site, c)

Next ==
    \/ CreateAssetStep
    \/ UpdateAssetStep
    \/ DeleteAssetStep
    \/ ListAssetsStep
    \/ GetAssetStep
    \/ ListSwitchesStep
    \/ ListVLANsStep
    \/ GetSiteAssetCategoriesStep

Spec == Init /\ [][Next]_vars

\* ============================================================= sites.go
\* these handlers query s.DB, the pool, whatever the request context holds
SiteRow(x) == Row(x.id, x.org, 0, x.name, 0)

createSite(g, name, c) ==
    /\ SiteFrame
    /\ LET id  == nextSiteId
           new == [id |-> id, org |-> g, name |-> name]
       IN
       IF name = "" THEN
           /\ UNCHANGED <<sites, nextSiteId>>
           /\ resp' = Resp("createSite", g, 0, 400, "validate", {})
       ELSE IF StmtError(c) \/ ~RowVisible(c, g) THEN
           /\ nextSiteId' = id + 1
           /\ UNCHANGED sites
           /\ resp' = Resp("createSite", g, id, 500, "site", {})
       ELSE
           /\ nextSiteId' = id + 1
           /\ sites' = sites \cup {new}
           /\ resp' = Resp("createSite", g, id, 201, "done", {SiteRow(new)})

\* the rows of sites the WHERE clause of listSites selects
sitesMatching(g, c) ==
    {SiteRow(x) : x \in {x \in sites : x.org = g /\ RowVisible(c, x.org)}}

listSites(g, limitQ, offsetQ, c) ==
    /\ SiteFrame
    /\ UNCHANGED <<sites, nextSiteId>>
    /\ LET params == parseListParams(limitQ, offsetQ)
           w      == windowed(sitesMatching(g, c), params.limit, params.offset)
       IN
       IF StmtError(c) THEN
           resp' = Resp("listSites", g, 0, 500, "site", {})
       ELSE
           resp' = sendListResponse(Resp("listSites", g, 0, 200, "done", {}),
                                    w.data, w.totalCount, params)

getSite(g, id, c) ==
    /\ SiteFrame
    /\ UNCHANGED <<sites, nextSiteId>>
    /\ LET hit == {x \in sites : x.id = id /\ x.org = g /\ RowVisible(c, x.org)}
       IN
       IF StmtError(c) THEN
           resp' = Resp("getSite", g, id, 500, "site", {})
       ELSE IF hit = {} THEN
           resp' = Resp("getSite", g, id, 404, "site", {})
       ELSE
           resp' = Resp("getSite", g, id, 200, "done", {SiteRow(x) : x \in hit})

\* name "" leaves the name out of the SET list
updateSite(g, id, name, c) ==
    /\ SiteFrame
    /\ UNCHANGED nextSiteId
    /\ LET hit == {x \in sites : x.id = id /\ x.org = g /\ RowVisible(c, x.org)}
       IN
       IF name = "" THEN
           /\ UNCHANGED sites
           /\ resp' = Resp("updateSite", g, id, 400, "validate", {})
       ELSE IF StmtError(c) THEN
           /\ UNCHANGED sites
           /\ resp' = Resp("updateSite", g, id, 500, "site", {})
       ELSE IF hit = {} THEN
           /\ UNCHANGED sites
           /\ resp' = Resp("updateSite", g, id, 404, "site", {})
       ELSE
           LET old == CHOOSE x \in hit : TRUE
               new == [old EXCEPT !.name = name]
           IN
           /\ sites' = (sites \ {old}) \cup {new}
           /\ resp' = Resp("updateSite", g, id, 200, "done", {SiteRow(new)})

\* assets.site_id REFERENCES sites(id) without ON DELETE
deleteSite(g, id, c) ==
    /\ SiteFrame
    /\ UNCHANGED nextSiteId
    /\ LET hit == {x \in sites : x.id = id /\ x.org = g /\ RowVisible(c, x.org)}
       IN
       IF StmtError(c) \/ (hit # {} /\ \E a \in assets : a.site = id) THEN
           /\ UNCHANGED sites
           /\ resp' = Resp("deleteSite", g, id, 500, "site", {})
       ELSE IF hit = {} THEN
           /\ UNCHANGED sites
           /\ resp' = Resp("deleteSite", g, id, 404, "site", {})
       ELSE
           /\ sites' = sites \ hit
           /\ resp' = Resp("deleteSite", g, id, 204, "done", {})

SiteIds == 1..MaxSiteId

CreateSiteStep ==
    /\ nextSiteId <= MaxSiteId
    /\ \E g \in Orgs, name \in {"", "a"}, c \in {Pooled} : createSite(g, name, c)

ListSitesStep ==
    \E g \in Orgs, c \in {Pooled} : listSites(g, NoQueryInt, NoQueryInt, c)

GetSiteStep == \E g \in Orgs, id \in SiteIds, c \in {Pooled} : getSite(g, id, c)

UpdateSiteStep ==
    \E g \in Orgs, id \in SiteIds, name \in {"", "a", "b"}, c \in {Pooled} :
       updateSite(g, id, name, c)

DeleteSiteStep ==
    \E g \in Orgs, id \in SiteIds, c \in {Pooled} : deleteSite(g, id, c)

NextSites ==
    \/ CreateSiteStep
    \/ ListSitesStep
    \/ GetSiteStep
    \/ UpdateSiteStep
    \/ DeleteSiteStep

SpecSites == Init /\ [][NextSites]_vars

\* ============================================================= users.go
ValidRoles == {"viewer", "project_admin", "org_admin"}

ValidateRoles(roles) == roles \subseteq ValidRoles /\ roles # {}

containsRole(roles, role) == role \in roles

IsMainTenant(org) == org = MainTenant

CanManageOrg(org, roles, targetOrgID) ==
    \/ IsMainTenant(org) /\ "org_admin" \in roles
    \/ org = targetOrgID /\ "org_admin" \in roles

\* the body's org_id when it is given, the caller's organization otherwise
GetTargetOrgID(org, reqOrg) == IF reqOrg # Unset THEN reqOrg ELSE org

\* a roles field absent from the body
NilRoles == {NotGiven}

UserRow(u) ==
    Row(u.id, u.org, 0,
        IF containsRole(u.roles, "org_admin") THEN "org_admin" ELSE "",
        IF u.active THEN 1 ELSE 0)

\* 002_default_users.sql: the main tenant's super admin
SeedUsers ==
    {[id |-> 1, org |-> MainTenant, roles |-> {"org_admin"}, active |-> TRUE]}

\* a freshly started server: no session has run SET yet
InitUsers ==
    /\ InitCommon
    /\ connVar = [c \in Conns |-> Unset]
    /\ users = SeedUsers
    /\ nextUserId = 2

\* setOK: whether the server accepts SET app.current_org_id on the connection.
\* With RLS_ENABLED off withDBConn hands back conn = nil and err = nil, and
\* conn.QueryRowContext dereferences it: the handler panics ("panic", status 0).
createUser(g, gRoles, bodyOK, reqOrg, roles, setOK, c) ==
    /\ UserFrame
    /\ LET targetOrgID == GetTargetOrgID(g, reqOrg)
           id  == nextUserId
           new == [id |-> id, org |-> targetOrgID, roles |-> roles,
                   active |-> TRUE]
           R(status, stage, rows) ==
               RespArg(Resp("createUser", g, id, status, stage, rows), reqOrg)
       IN
       IF ~bodyOK \/ roles = {} \/ ~ValidateRoles(roles) THEN
           /\ UNCHANGED <<users, nextUserId, connVar>>
           /\ resp' = R(400, "validate", {})
       ELSE IF ~CanManageOrg(g, gRoles, targetOrgID) THEN
           /\ UNCHANGED <<users, nextUserId, connVar>>
           /\ resp' = R(403, "authorize", {})
       ELSE IF ~rlsEnabled THEN
           /\ UNCHANGED <<users, nextUserId, connVar>>
           /\ resp' = R(0, "panic", {})
       ELSE IF ~setOK THEN
           /\ UNCHANGED <<users, nextUserId, connVar>>
           /\ resp' = R(500, "connect", {})
       ELSE
           /\ connVar' = [connVar EXCEPT ![c] = g]
           /\ nextUserId' = id + 1
           /\ IF (policy /\ ~(g = MainTenant \/ targetOrgID = g))
                 \/ targetOrgID \notin orgs THEN
                  /\ UNCHANGED users
                  /\ resp' = R(500, "user", {})
              ELSE
                  /\ users' = users \cup {new}
                  /\ resp' = R(201, "done", {})

\* orgFilter = Unset: no org_id query parameter
listUsers(g, orgFilter, c) ==
    /\ UserFrame
    /\ UNCHANGED <<users, nextUserId, connVar>>
    /\ LET filtered == orgFilter # Unset /\ IsMainTenant(g)
           sel == {u \in users : /\ RowVisible(c, u.org)
                                 /\ (filtered => u.org = orgFilter)}
       IN
       IF StmtError(c) THEN
           resp' = Resp("listUsers", g, 0, 500, "user", {})
       ELSE
           resp' = Resp("listUsers", g, 0, 200, "done", {UserRow(u) : u \in sel})

getUser(g, id, c) ==
    /\ UserFrame
    /\ UNCHANGED <<users, nextUserId, connVar>>
    /\ LET hit == {u \in users : u.id = id /\ RowVisible(c, u.org)}
       IN
       IF StmtError(c) THEN
           resp' = Resp("getUser", g, id, 500, "user", {})
       ELSE IF hit = {} THEN
           resp' = Resp("getUser", g, id, 404, "user", {})
       ELSE
           resp' = Resp("getUser", g, id, 200, "done", {UserRow(u) : u \in hit})
\* reqOrg = Unset, roles = NilRoles, active = NotGiven: field absent
updateUser(g, id, reqOrg, roles, active, c) ==
    /\ UserFrame
    /\ UNCHANGED <<nextUserId, connVar>>
    /\ LET hit == {u \in users : u.id = id /\ RowVisible(c, u.org)}
           R(status, stage, rows) == Resp("updateUser", g, id, status, stage, rows)
       IN
       IF StmtError(c) THEN
           /\ UNCHANGED users
           /\ resp' = R(500, "user", {})
       ELSE IF hit = {} THEN
           /\ UNCHANGED users
           /\ resp' = R(404, "user", {})
       ELSE
           LET existingUser == CHOOSE u \in hit : TRUE
               new == [existingUser EXCEPT
                          !.org    = IF reqOrg # Unset THEN reqOrg ELSE @,
                          !.roles  = IF roles # NilRoles THEN roles ELSE @,
                          !.active = IF active # NotGiven
                                     THEN active = "true" ELSE @]
           IN
           IF reqOrg # Unset /\ reqOrg # existingUser.org /\ ~IsMainTenant(g) THEN
               /\ UNCHANGED users
               /\ resp' = R(403, "authorize", {})
           ELSE IF roles # NilRoles /\ ~ValidateRoles(roles) THEN
               /\ UNCHANGED users
               /\ resp' = R(400, "validate", {})
           ELSE IF reqOrg = Unset /\ roles = NilRoles /\ active = NotGiven THEN
               /\ UNCHANGED users
               /\ resp' = R(400, "validate", {})
           ELSE IF ~RowVisible(c, new.org) \/ new.org \notin orgs THEN
               /\ UNCHANGED users
               /\ resp' = R(500, "user", {})
           ELSE
               /\ users' = (users \ {existingUser}) \cup {new}
               /\ resp' = R(200, "done", {})

\* the count without its id != $2 conjunct
adminCount_withSelf(U, orgID, id, c) ==
    Cardinality({u \in U : /\ RowVisible(c, u.org)
                           /\ u.org = orgID
                           /\ containsRole(u.roles, "org_admin")
                           /\ u.active})

\* SELECT COUNT(*) ... AND id != $2 of deleteUser
adminCount(U, orgID, id, c) ==
    Cardinality({u \in U : /\ RowVisible(c, u.org)
                           /\ u.org = orgID
                           /\ containsRole(u.roles, "org_admin")
                           /\ u.active
                           /\ u.id # id})

deleteUser(g, id, c) ==
    /\ UserFrame
    /\ UNCHANGED <<nextUserId, connVar>>
    /\ LET hit == {u \in users : u.id = id /\ RowVisible(c, u.org)}
       IN
       IF StmtError(c) THEN
           /\ UNCHANGED users
           /\ resp' = Resp("deleteUser", g, id, 500, "user", {})
       ELSE IF hit = {} THEN
           /\ UNCHANGED users
           /\ resp' = Resp("deleteUser", g, id, 404, "user", {})
       ELSE
           LET u == CHOOSE x \in hit : TRUE
           IN
           IF /\ containsRole(u.roles, "org_admin")
              /\ adminCount(users, u.org, id, c) = 0 THEN
               /\ UNCHANGED users
               /\ resp' = Resp("deleteUser", g, id, 400, "last_admin", {})
           ELSE
               /\ users' = users \ {u}
               /\ resp' = Resp("deleteUser", g, id, 204, "done", {})

UserIds == 1..MaxUserId

\* request bodies: the well-formed ones, and one body per rejection
CreateUserReqs ==
    [gRoles : {{"org_admin"}}, bodyOK : {TRUE}, reqOrg : {Unset} \cup Orgs,
     roles : {{"viewer"}, {"org_admin"}}, setOK : {TRUE}]
    \cup {[gRoles |-> {"org_admin"}, bodyOK |-> b, reqOrg |-> Unset,
           roles |-> r, setOK |-> TRUE] :
              b \in {FALSE}, r \in {{"viewer"}}}
    \cup {[gRoles |-> {"org_admin"}, bodyOK |-> TRUE, reqOrg |-> Unset,
           roles |-> r, setOK |-> TRUE] : r \in {{}, {"owner"}}}
    \cup {[gRoles |-> {"viewer"}, bodyOK |-> TRUE, reqOrg |-> Unset,
           roles |-> {"viewer"}, setOK |-> TRUE],
          [gRoles |-> {"org_admin"}, bodyOK |-> TRUE, reqOrg |-> Unset,
           roles |-> {"viewer"}, setOK |-> FALSE]}

UpdateUserReqs ==
    [reqOrg : Orgs, roles : {NilRoles}, active : {NotGiven}]
    \cup [reqOrg : {Unset}, roles : {{"viewer"}, {"owner"}}, active : {NotGiven}]
    \cup [reqOrg : {Unset}, roles : {NilRoles},
          active : {NotGiven, "true", "false"}]

CreateUserStep ==
    /\ nextUserId <= MaxUserId
    /\ \E g \in Callers, q \in CreateUserReqs, c \in {Pooled} :
          createUser(g, q.gRoles, q.bodyOK, q.reqOrg, q.roles, q.setOK, c)

ListUsersStep ==
    \E g \in Callers, orgFilter \in {Unset, 2}, c \in {Pooled} :
       listUsers(g, orgFilter, c)

GetUserStep == \E g \in Callers, id \in UserIds, c \in {Pooled} : getUser(g, id, c)

UpdateUserStep ==
    \E g \in Callers, id \in UserIds, q \in UpdateUserReqs, c \in {Pooled} :
       updateUser(g, id, q.reqOrg, q.roles, q.active, c)

DeleteUserStep ==
    \E g \in Callers, id \in UserIds, c \in {Pooled} : deleteUser(g, id, c)

NextUsers ==
    \/ CreateUserStep
    \/ ListUsersStep
    \/ GetUserStep
    \/ UpdateUserStep
    \/ DeleteUserStep

SpecUsers == InitUsers /\ [][NextUsers]_vars
\* ============================================== the pool under concurrency
\* Two requests in flight over the connections of *sql.DB.  createUser goes
\* through withDBConn; listSites queries s.DB, which takes any idle connection.
PoolFrame == UNCHANGED <<rls, policy, orgs, sites, nextSiteId, assets,
                         nextAssetId, switches, vlans, counters, users,
                         nextUserId, imp,
        jwtManager, gate>>

held == {inflight[r].conn : r \in Reqs} \ {NoConn}

\* a statement of request r ran on connection c: arg is the value of
\* app.current_org_id that session had
Stmt(r, c) ==
    RespArg(Resp(inflight[r].op, inflight[r].org, c, 200, "query", {}),
            connVar[c])

Begin(r, op, org) ==
    /\ inflight[r].pc = "idle"
    /\ inflight' = [inflight EXCEPT ![r] =
                       [pc |-> IF op = "createUser" THEN "withDBConn" ELSE "query",
                        op |-> op, org |-> org, conn |-> NoConn]]
    /\ UNCHANGED <<connVar, resp>>
    /\ PoolFrame

\* db.Conn takes an idle connection c; ExecContext runs SET on it
withDBConn(r, c, setOK) ==
    /\ inflight[r].pc = "withDBConn"
    /\ PoolFrame
    /\ IF ~rlsEnabled THEN
           /\ inflight' = [inflight EXCEPT ![r] = Idle]
           /\ resp' = Resp(inflight[r].op, inflight[r].org, NoConn, 0, "panic", {})
           /\ UNCHANGED connVar
       ELSE
           /\ c \notin held
           /\ IF setOK THEN
                  /\ connVar' = [connVar EXCEPT ![c] = inflight[r].org]
                  /\ inflight' = [inflight EXCEPT ![r].pc = "insert",
                                                  ![r].conn = c]
                  /\ UNCHANGED resp
              ELSE
                  /\ inflight' = [inflight EXCEPT ![r] = Idle]
                  /\ resp' = Resp(inflight[r].op, inflight[r].org, c, 500,
                                  "connect", {})
                  /\ UNCHANGED connVar

\* conn.QueryRowContext on the connection the request holds
connQuery(r) ==
    /\ inflight[r].pc = "insert"
    /\ resp' = Stmt(r, inflight[r].conn)
    /\ inflight' = [inflight EXCEPT ![r].pc = "close"]
    /\ UNCHANGED connVar
    /\ PoolFrame

\* the deferred conn.Close(): the connection goes back to the pool as it is
connClose(r) ==
    /\ inflight[r].pc = "close"
    /\ inflight' = [inflight EXCEPT ![r] = Idle]
    /\ UNCHANGED <<connVar, resp>>
    /\ PoolFrame

\* s.DB.Query: database/sql runs the statement on an idle connection c
poolQuery(r, c) ==
    /\ inflight[r].pc = "query"
    /\ dbFrom(NoConn, c) \notin held
    /\ resp' = Stmt(r, dbFrom(NoConn, c))
    /\ inflight' = [inflight EXCEPT ![r] = Idle]
    /\ UNCHANGED connVar
    /\ PoolFrame

InitPool ==
    /\ InitCommon
    /\ connVar = [c \in Conns |-> Unset]
    /\ users = {}
    /\ nextUserId = 1

BeginStep ==
    \E r \in Reqs, op \in {"createUser", "listSites"}, org \in Orgs :
       Begin(r, op, org)

WithDBConnStep ==
    \E r \in Reqs, c \in Conns, setOK \in BOOLEAN : withDBConn(r, c, setOK)

ConnQueryStep == \E r \in Reqs : connQuery(r)

ConnCloseStep == \E r \in Reqs : connClose(r)

PoolQueryStep == \E r \in Reqs, c \in Conns : poolQuery(r, c)

NextPool ==
    \/ BeginStep
    \/ WithDBConnStep
    \/ ConnQueryStep
    \/ ConnCloseStep
    \/ PoolQueryStep

SpecPool == InitPool /\ [][NextPool]_vars
\* ====================================================== organizations.go
OrgFrame == UNCHANGED <<rls, policy, connVar, sites, nextSiteId, assets,
                        nextAssetId, switches, vlans, counters, users,
                        nextUserId, inflight, imp,
        jwtManager, gate>>

\* SELECT COUNT(*) FROM <table> WHERE org_id = $1, on the pool
orgRowCount(T, id, c) ==
    Cardinality({x \in T : x.org = id /\ RowVisible(c, x.org)})

\* users.org_id and assets.org_id REFERENCES organizations(id); the org_id
\* of sites, vendors, projects and inventory is a plain column
orgReferenced(id) ==
    \/ \E u \in users : u.org = id
    \/ \E a \in assets : a.org = id

deleteOrganization(g, id, c) ==
    /\ OrgFrame
    /\ LET R(status, stage) == Resp("deleteOrganization", g, id, status, stage, {})
       IN
       IF ~IsMainTenant(g) THEN
           /\ UNCHANGED orgs
           /\ resp' = R(403, "authorize")
       ELSE IF id = 1 THEN
           /\ UNCHANGED orgs
           /\ resp' = R(400, "main_tenant")
       ELSE IF StmtError(c) THEN
           /\ UNCHANGED orgs
           /\ resp' = R(500, "users")
       ELSE IF orgRowCount(users, id, c) > 0 THEN
           /\ UNCHANGED orgs
           /\ resp' = R(400, "users")
       ELSE IF orgRowCount(sites, id, c) > 0 THEN
           /\ UNCHANGED orgs
           /\ resp' = R(400, "data")
       ELSE IF orgReferenced(id) THEN
           /\ UNCHANGED orgs
           /\ resp' = R(500, "delete")
       ELSE IF id \notin orgs THEN
           /\ UNCHANGED orgs
           /\ resp' = R(404, "delete")
       ELSE
           /\ orgs' = orgs \ {id}
           /\ resp' = R(204, "done")

\* the dependents of an organization come from the handlers above, each
\* with one well-formed body
OrgCreateSiteStep ==
    /\ nextSiteId <= MaxSiteId
    /\ \E g \in Orgs, c \in {Pooled} : createSite(g, "a", c)

OrgCreateAssetStep ==
    /\ nextAssetId <= MaxAssetId
    /\ \E g \in Orgs, c \in {Pooled} :
          createAsset(g, 1, "switch", TRUE, FALSE, NoVlan, NilExtras, c, c, c)

OrgCreateUserStep ==
    /\ nextUserId <= MaxUserId
    /\ \E g \in Orgs, c \in {Pooled} :
          createUser(g, {"org_admin"}, TRUE, Unset, {"viewer"}, TRUE, c)

DeleteOrganizationStep ==
    \E g \in Callers, id \in Orgs, c \in {Pooled} : deleteOrganization(g, id, c)

NextOrgs ==
    \/ OrgCreateSiteStep
    \/ OrgCreateAssetStep
    \/ OrgCreateUserStep
    \/ DeleteSiteStep
    \/ DeleteAssetStep
    \/ DeleteUserStep
    \/ DeleteOrganizationStep

InitOrgs ==
    /\ InitCommon
    /\ PoolInit
    /\ users = SeedUsers
    /\ nextUserId = 2

SpecOrgs == InitOrgs /\ [][NextOrgs]_vars

\* ================================================== importer (ImportExcel)
\* The importer runs on a connection of its own pgx pool.  SET LOCAL outside
\* a transaction block does not outlive its own statement, so the session
\* variable of that connection stays as it was: never SET.
ImpConn == 2

DefaultMaxErrors == 50

\* A data row of the "Equipment" sheet, by the cells that decide the
\* importer's path: AssetType, Name and MgmtIP (Null: cell empty or absent).
\* The files here carry no Serial column, so "name" is the natural key tried.
Cells(atype, name, ip) == [atype |-> atype, name |-> name, ip |-> ip]

ValidIPs == {"10.0.0.1", "10.0.0.2"}

\* parseValue: INET goes through net.ParseIP, TEXT is taken as it is
parseValue(value, valueType) ==
    IF valueType = "INET"
    THEN [err |-> value \notin ValidIPs, v |-> value]
    ELSE [err |-> FALSE, v |-> value]

\* buildAssetData under the built-in mapping: every column is typed without
\* "?", and an empty cell of any column is passed over without an error
buildAssetData(rowData) ==
    LET ip == IF rowData.ip = Null THEN [err |-> FALSE, v |-> Null]
              ELSE parseValue(rowData.ip, "INET")
    IN  [err  |-> ip.err,
         data |-> [asset_type |-> rowData.atype, name |-> rowData.name,
                   mgmt_ip |-> ip.v]]

\* the rows SELECT id FROM assets WHERE org_id, site_id, asset_type, name match
existingByName(A, assetData, orgID, siteID, c) ==
    {a \in A : /\ a.org = orgID /\ a.site = siteID
               /\ a.type = assetData.asset_type /\ a.name = assetData.name
               /\ RowVisible(c, a.org)}

\* findExistingAsset: Scan's error for an empty result is compared with
\* sql.ErrNoRows; noRowsIsSql says whether the driver returns that very value
\* (pgx returns its own pgx.ErrNoRows)
findExistingAsset(A, assetData, orgID, siteID, c, noRowsIsSql) ==
    IF assetData.name = Null THEN [id |-> 0, err |-> FALSE]
    ELSE IF StmtError(c) THEN [id |-> 0, err |-> TRUE]
    ELSE LET hit == existingByName(A, assetData, orgID, siteID, c)
         IN  IF hit # {}
             THEN [id |-> (CHOOSE a \in hit : \A b \in hit : a.id <= b.id).id,
                   err |-> FALSE]
             ELSE [id |-> 0, err |-> ~noRowsIsSql]

\* importer.insertAsset: INSERT INTO assets .. RETURNING id; none of the
\* mapping's subtype_fields is ever in assetData, so no subtype row follows
importer_insertAsset(D, assetData, orgID, siteID, c) ==
    LET id  == D.nextId
        new == [id |-> id, org |-> orgID, site |-> siteID,
                type |-> assetData.asset_type, name |-> assetData.name,
                ip |-> assetData.mgmt_ip, extras |-> {}]
        A1  == D.assets \cup {new}
    IN  IF \/ StmtError(c) \/ ~RowVisible(c, orgID)
           \/ siteID \notin SiteIdsOf(sites) \/ orgID \notin orgs
           \/ assetData.asset_type = Null
        THEN [err |-> TRUE, D |-> [D EXCEPT !.nextId = id + 1]]
        ELSE [err |-> FALSE,
              D |-> [assets   |-> A1,
                     counters |-> trg_assets_refresh_counts("INSERT", new, new, A1,
                                                            D.counters, c),
                     nextId   |-> id + 1]]

\* importer.updateAsset: UPDATE assets SET <the fields of assetData> WHERE id
importer_updateAsset(D, assetID, assetData, c) ==
    LET hit == {a \in D.assets : a.id = assetID /\ RowVisible(c, a.org)}
    IN  IF StmtError(c) THEN [err |-> TRUE, D |-> D]
        ELSE IF hit = {} THEN [err |-> FALSE, D |-> D]
        ELSE LET old == CHOOSE a \in hit : TRUE
                 new == [old EXCEPT
                            !.name = IF assetData.name # Null
                                     THEN assetData.name ELSE @,
                            !.ip   = IF assetData.mgmt_ip # Null
                                     THEN assetData.mgmt_ip ELSE @]
                 A1  == (D.assets \ {old}) \cup {new}
             IN  [err |-> FALSE,
                  D |-> [D EXCEPT
                            !.assets = A1,
                            !.counters = trg_assets_refresh_counts(
                                             "UPDATE", old, new, A1, D.counters, c)]]

rowError(summary, rowIdx) ==
    [summary EXCEPT !.errors = @ + 1, !.samples = Append(@, rowIdx + 1)]

\* the body of processSheet's row loop with the DryRun guards left out
processRow_alwaysWrite(D, summary, rowData, rowIdx, opts, c) ==
    IF rowData = Cells(Null, Null, Null) THEN
        [D |-> D, summary |-> [summary EXCEPT !.skipped = @ + 1]]
    ELSE
        LET built == buildAssetData(rowData)
            found == findExistingAsset(D.assets, built.data, opts.org, opts.site,
                                       c, opts.noRowsIsSql)
            upd   == importer_updateAsset(D, found.id, built.data, c)
            ins   == importer_insertAsset(D, built.data, opts.org, opts.site, c)
        IN  IF built.err \/ found.err THEN
                [D |-> D, summary |-> rowError(summary, rowIdx)]
            ELSE IF found.id > 0 THEN
                IF upd.err
                THEN [D |-> upd.D, summary |-> rowError(summary, rowIdx)]
                ELSE [D |-> upd.D, summary |-> [summary EXCEPT !.updated = @ + 1]]
            ELSE
                IF ins.err
                THEN [D |-> ins.D, summary |-> rowError(summary, rowIdx)]
                ELSE [D |-> ins.D, summary |-> [summary EXCEPT !.inserted = @ + 1]]

\* the body of processSheet's row loop, for the row at rowIdx (sample: rowIdx+1)
processRow(D, summary, rowData, rowIdx, opts, c) ==
    IF rowData = Cells(Null, Null, Null) THEN
        [D |-> D, summary |-> [summary EXCEPT !.skipped = @ + 1]]
    ELSE
        LET built == buildAssetData(rowData)
            found == findExistingAsset(D.assets, built.data, opts.org, opts.site,
                                       c, opts.noRowsIsSql)
            upd   == importer_updateAsset(D, found.id, built.data, c)
            ins   == importer_insertAsset(D, built.data, opts.org, opts.site, c)
        IN  IF built.err \/ found.err THEN
                [D |-> D, summary |-> rowError(summary, rowIdx)]
            ELSE IF found.id > 0 THEN
                IF ~opts.dry /\ upd.err
                THEN [D |-> upd.D, summary |-> rowError(summary, rowIdx)]
                ELSE [D |-> IF opts.dry THEN D ELSE upd.D,
                      summary |-> [summary EXCEPT !.updated = @ + 1]]
            ELSE
                IF ~opts.dry /\ ins.err
                THEN [D |-> ins.D, summary |-> rowError(summary, rowIdx)]
                ELSE [D |-> IF opts.dry THEN D ELSE ins.D,
                      summary |-> [summary EXCEPT !.inserted = @ + 1]]

\* processSheet's row loop from rowIdx to the end of the sheet
RECURSIVE processSheet(_, _, _, _, _, _)
processSheet(D, summary, rows, rowIdx, opts, c) ==
    IF rowIdx > Len(rows) THEN [D |-> D, summary |-> summary]
    ELSE LET r == processRow(D, summary, rows[rowIdx], rowIdx, opts, c)
         IN  processSheet(r.D, r.summary, rows, rowIdx + 1, opts, c)

\* "Accumulate totals"
addTotals(total, sheetSummary) ==
    [inserted |-> total.inserted + sheetSummary.inserted,
     updated  |-> total.updated + sheetSummary.updated,
     skipped  |-> total.skipped + sheetSummary.skipped,
     errors   |-> total.errors + sheetSummary.errors]

\* the next sheet at or after i that has a mapping ("continue" for the others)
RECURSIVE nextMapped(_, _)
nextMapped(file, i) ==
    IF i > Len(file) \/ file[i].mapped THEN i ELSE nextMapped(file, i + 1)

\* ImportExcel's loop over the sheets from sheet si on: what the call returns
RECURSIVE importSheets(_, _, _, _, _, _, _)
importSheets(D, total, done, file, si, opts, c) ==
    LET i == nextMapped(file, si)
    IN  IF i > Len(file) THEN
            [D |-> D, total |-> total, sheets |-> done, err |-> FALSE]
        ELSE
            LET r == processSheet(D, NoSheetSummary, file[i].rows, 1, opts, c)
                t == addTotals(total, r.summary)
            IN  IF t.errors > opts.maxErrors
                THEN [D |-> r.D, total |-> t, sheets |-> Append(done, r.summary),
                      err |-> TRUE]
                ELSE importSheets(r.D, t, Append(done, r.summary), file, i + 1,
                                  opts, c)

\* ------------------------------------------------------ import inputs
Sheet(rows) == [mapped |-> TRUE, rows |-> rows]
Good(n)     == Cells("switch", n, "10.0.0.1")
BadIP(n)    == Cells("switch", n, "10.0.0.999")
Nameless    == Cells("switch", Null, "10.0.0.1")
Blank       == Cells(Null, Null, Null)
Unmapped    == [mapped |-> FALSE, rows |-> <<Good("z")>>]

FiveRows  == <<Sheet(<<Good("a"), Good("b"), BadIP("c"), Good("d"), Good("e")>>)>>
Duplicate == <<Sheet(<<Good("a"), Cells("switch", "a", "10.0.0.2")>>)>>
Required  == <<Sheet(<<Nameless, Blank>>)>>
TwoSheets == <<Sheet(<<BadIP("a"), BadIP("b"), Good("c")>>), Unmapped,
               Sheet(<<Good("d")>>)>>
ManyBad   == <<Sheet([i \in 1..11 |-> BadIP("a")])>>
Untyped   == <<Sheet(<<Cells(Null, Null, "10.0.0.1")>>)>>

Files == {FiveRows, Duplicate, Required, TwoSheets, ManyBad, Untyped}

MaxErrorsReqs == {0, 1}

\* ------------------------------------------------------ the import call
ImportFrame == UNCHANGED <<rls, policy, connVar, orgs, sites, nextSiteId,
                           switches, vlans, users, nextUserId, inflight,
        jwtManager, gate>>

DB == [assets |-> assets, counters |-> counters, nextId |-> nextAssetId]

\* UploadExcel: 422 IMPORT_FAILED with the partial summary, or 200
importDone(failed) ==
    Resp("importExcel", imp'.opts.org, 0, IF failed THEN 422 ELSE 200, "done", {})

\* ImportExcel up to its first sheet
ImportExcelBegin(g, siteID, file, dryRun, maxErrors, setOK, noRowsIsSql) ==
    /\ imp.pc \in {"idle", "done"}
    /\ imp.runs < MaxImports
    /\ ImportFrame
    /\ NoDataChange
    /\ LET opts == [org |-> g, site |-> siteID, dry |-> dryRun,
                    maxErrors |-> IF maxErrors = 0 THEN DefaultMaxErrors
                                  ELSE maxErrors,
                    noRowsIsSql |-> noRowsIsSql]
           first == nextMapped(file, 1)
           begun == [pc |-> "rows", opts |-> opts, file |-> file, si |-> first,
                     ri |-> 1, cur |-> NoSheetSummary, sheets |-> <<>>,
                     total |-> NoTotals, err |-> FALSE, before |-> DB,
                     runs |-> imp.runs + 1]
       IN  IF ~setOK THEN
               /\ imp' = [begun EXCEPT !.pc = "done", !.err = TRUE]
               /\ resp' = importDone(TRUE)
           ELSE IF first > Len(file) THEN
               /\ imp' = [begun EXCEPT !.pc = "done"]
               /\ resp' = importDone(FALSE)
           ELSE
               /\ imp' = begun
               /\ UNCHANGED resp

\* one pass of processSheet's row loop
ProcessRow ==
    /\ imp.pc = "rows"
    /\ imp.ri <= Len(imp.file[imp.si].rows)
    /\ ImportFrame
    /\ UNCHANGED resp
    /\ LET r == processRow(DB, imp.cur, imp.file[imp.si].rows[imp.ri], imp.ri,
                           imp.opts, ImpConn)
       IN  /\ assets' = r.D.assets
           /\ counters' = r.D.counters
           /\ nextAssetId' = r.D.nextId
           /\ imp' = [imp EXCEPT !.cur = r.summary, !.ri = @ + 1]

\* processSheet returns: totals, the max_errors test, the next sheet
EndSheet ==
    /\ imp.pc = "rows"
    /\ imp.ri > Len(imp.file[imp.si].rows)
    /\ ImportFrame
    /\ NoDataChange
    /\ LET total == addTotals(imp.total, imp.cur)
           done  == Append(imp.sheets, imp.cur)
           nxt   == nextMapped(imp.file, imp.si + 1)
       IN  IF total.errors > imp.opts.maxErrors THEN
               /\ imp' = [imp EXCEPT !.pc = "done", !.total = total,
                                     !.sheets = done, !.err = TRUE]
               /\ resp' = importDone(TRUE)
           ELSE IF nxt > Len(imp.file) THEN
               /\ imp' = [imp EXCEPT !.pc = "done", !.total = total,
                                     !.sheets = done]
               /\ resp' = importDone(FALSE)
           ELSE
               /\ imp' = [imp EXCEPT !.total = total, !.sheets = done,
                                     !.si = nxt, !.ri = 1, !.cur = NoSheetSummary]
               /\ UNCHANGED resp

ImportExcelStep ==
    \E g \in Callers, file \in Files, dryRun \in BOOLEAN,
       maxErrors \in MaxErrorsReqs, setOK \in BOOLEAN, noRowsIsSql \in BOOLEAN :
        ImportExcelBegin(g, 1, file, dryRun, maxErrors, setOK, noRowsIsSql)

NextImport == ImportExcelStep \/ ProcessRow \/ EndSheet

InitImport ==
    /\ InitCommon
    /\ PoolInit
    /\ users = {}
    /\ nextUserId = 1

SpecImport == InitImport /\ [][NextImport]_vars

\* ======================================================= paged listing
\* limit= and offset= as clients send them: absent or unparsable, zero,
\* negative, small, and larger than every cap
LimitReqs == {NoQueryInt, QueryInt(0), QueryInt(1), QueryInt(2), QueryInt(300)}

OffsetReqs == {NoQueryInt, QueryInt(-1)} \cup {QueryInt(k) : k \in 0..(MaxListRows + 1)}

ListCreateAssetStep ==
    /\ nextAssetId <= MaxListRows
    /\ \E g \in Callers, type \in AssetTypes, c \in {Pooled} :
          createAsset(g, 1, type, TRUE, FALSE, NoVlan, NilExtras, c, c, c)

ListAssetsPageStep ==
    \E g \in Callers, type \in {NotGiven, "switch"}, limitQ \in LimitReqs,
       offsetQ \in OffsetReqs, c \in {Pooled} :
        listAssets(g, 0, type, limitQ, offsetQ, c)

ListSitesPageStep ==
    \E g \in Callers, limitQ \in LimitReqs, offsetQ \in OffsetReqs, c \in {Pooled} :
        listSites(g, limitQ, offsetQ, c)

NextList == ListCreateAssetStep \/ ListAssetsPageStep \/ ListSitesPageStep

\* RLS_ENABLED unset: every statement runs on the pool's connection, whose
\* session never SET the tenant variable
InitList == Init /\ ~rls

SpecList == InitList /\ [][NextList]_vars

\* ============================================================== extras
\* extras objects over two keys: empty, both keys, one key with a new value,
\* the other key alone
ExtrasObjects ==
    {{}, {<<"rack", "r1">>, <<"owner", "ops">>}, {<<"rack", "r2">>},
     {<<"owner", "net">>}}

ExtrasReqs == {NilExtras} \cup {Extras(m) : m \in ExtrasObjects}

ExtrasCreateStep ==
    /\ nextAssetId <= MaxAssetId
    /\ \E g \in Callers, e \in ExtrasReqs, c \in {Pooled} :
          createAsset(g, 1, "switch", TRUE, FALSE, NoVlan, e, c, c, c)

ExtrasUpdateStep ==
    \E g \in Callers, id \in AssetIds, type \in {NotGiven, "vlan"},
       e \in ExtrasReqs, c \in {Pooled} :
        updateAsset(g, id, type, "none", FALSE, NoVlan, e, c, c, c)

NextExtras == ExtrasCreateStep \/ ExtrasUpdateStep \/ GetAssetStep

SpecExtras == Init /\ [][NextExtras]_vars

\* ==================================================== config.go / main.go
\* Durations are in seconds; a secret is its length in bytes and whether it
\* is the literal default of Load.
MinSecretLen     == 32
DefaultSecretLen == 36
MinExpiry        == 60
MaxExpiry        == 2592000
DefaultExpiry    == 86400

EnvSecret(len) == [len |-> len, default |-> FALSE]

DefaultSecret == [len |-> DefaultSecretLen, default |-> TRUE]

\* an environment variable holding a duration: unset, unparsable, or a value
NoEnv == [set |-> FALSE, parses |-> FALSE, v |-> 0]

BadDuration == [set |-> TRUE, parses |-> FALSE, v |-> 0]

EnvDuration(v) == [set |-> TRUE, parses |-> TRUE, v |-> v]

\* getEnv falls back to the default when the variable is empty
Load(envSecret, envExpiry) ==
    [secret   |-> IF envSecret.len = 0 THEN DefaultSecret ELSE envSecret,
     issuer   |-> "era-inventory-api",
     audience |-> "era-inventory-api",
     expiry   |-> IF envExpiry.set /\ envExpiry.parses THEN envExpiry.v
                  ELSE DefaultExpiry]

\* Validate without the upper limit on the expiry
Validate_noMax(c, environment) ==
    IF c.secret.len = 0 THEN "JWT_SECRET environment variable is required"
    ELSE IF c.secret.default /\ environment = "production"
         THEN "JWT_SECRET must be changed from default value in production"
    ELSE IF c.secret.len < MinSecretLen
         THEN "JWT_SECRET must be at least 32 characters long"
    ELSE IF c.issuer = "" THEN "JWT_ISS environment variable is required"
    ELSE IF c.audience = "" THEN "JWT_AUD environment variable is required"
    ELSE IF c.expiry <= 0 THEN "JWT_EXPIRY must be positive"
    ELSE IF c.expiry < MinExpiry THEN "JWT_EXPIRY too short"
    ELSE Null

\* Config.Validate: the error it returns, Null for nil
Validate(c, environment) ==
    IF c.secret.len = 0 THEN "JWT_SECRET environment variable is required"
    ELSE IF c.secret.default /\ environment = "production"
         THEN "JWT_SECRET must be changed from default value in production"
    ELSE IF c.secret.len < MinSecretLen
         THEN "JWT_SECRET must be at least 32 characters long"
    ELSE IF c.issuer = "" THEN "JWT_ISS environment variable is required"
    ELSE IF c.audience = "" THEN "JWT_AUD environment variable is required"
    ELSE IF c.expiry <= 0 THEN "JWT_EXPIRY must be positive"
    ELSE IF c.expiry < MinExpiry THEN "JWT_EXPIRY too short"
    ELSE IF c.expiry > MaxExpiry THEN "JWT_EXPIRY too long"
    ELSE Null

LoadAndValidate(envSecret, envExpiry, environment) ==
    [cfg |-> Load(envSecret, envExpiry),
     err |-> Validate(Load(envSecret, envExpiry), environment)]

\* main: log.Fatalf on a configuration error, otherwise NewServer keeps the
\* configuration in its JWTManager and ListenAndServe starts
main(envSecret, envExpiry, environment) ==
    /\ jwtManager.pc = "init"
    /\ LET r == LoadAndValidate(envSecret, envExpiry, environment) IN
       jwtManager' = [pc          |-> IF r.err # Null THEN "fatal" ELSE "serving",
                      environment |-> environment,
                      secret      |-> r.cfg.secret,
                      issuer      |-> r.cfg.issuer,
                      audience    |-> r.cfg.audience,
                      expiry      |-> r.cfg.expiry]
    /\ UNCHANGED <<rls, policy, connVar, orgs, sites, nextSiteId, assets,
                   nextAssetId, switches, vlans, counters, users, nextUserId,
                   inflight, imp, gate, resp>>

\* =================================================================== jwt.go
ValidateConfig(j) ==
    IF j.secret.len = 0 THEN "JWT secret cannot be empty"
    ELSE IF j.secret.len < MinSecretLen
         THEN "JWT secret must be at least 32 characters"
    ELSE IF j.issuer = "" THEN "JWT issuer cannot be empty"
    ELSE IF j.audience = "" THEN "JWT audience cannot be empty"
    ELSE IF j.expiry <= 0 THEN "JWT expiry must be positive"
    ELSE Null

MaxRoleLen == 50

\* role names as the callers write them; the table gives what
\* strings.TrimSpace and len make of each
RoleNames == {"viewer", "project_admin", "org_admin", " viewer", "", "  ",
              "role-of-51-bytes"}

TrimSpace(role) ==
    CASE role = " viewer" -> "viewer"
      [] role = "  "      -> ""
      [] OTHER            -> role

RoleLen(role) ==
    CASE role = "role-of-51-bytes" -> MaxRoleLen + 1
      [] role = ""                 -> 0
      [] role = "  "               -> 2
      [] OTHER                     -> 6

\* the roles GenerateToken signs: trimmed, non-empty, at most 50 bytes
sanitizedRoles(roles) ==
    {TrimSpace(role) : role \in
        {x \in roles : TrimSpace(x) # "" /\ RoleLen(TrimSpace(x)) <= MaxRoleLen}}

\* GenerateToken: the token signed for a user, NoToken on an error
GenerateToken(j, userID, orgID, roles) ==
    IF ValidateConfig(j) # Null \/ userID <= 0 \/ orgID <= 0 \/ roles = {}
       \/ sanitizedRoles(roles) = {}
    THEN NoToken
    ELSE Token(1, 3, Null, userID, orgID, sanitizedRoles(roles), j.issuer)

validateClaims(j, claims) ==
    IF claims.user <= 0 THEN "invalid user ID in claims"
    ELSE IF claims.org <= 0 THEN "invalid organization ID in claims"
    ELSE IF claims.roles = {} THEN "no roles in claims"
    ELSE IF claims.issuer # j.issuer THEN "invalid issuer"
    ELSE Null

\* strings.Contains over the error texts that occur
Contains(s, substr) ==
    CASE substr = "expired" ->
            s \in {"token is expired", "token expired"}
      [] substr = "not valid yet" ->
            s \in {"token is not valid yet", "token not valid yet"}
      [] substr = "malformed" ->
            s \in {"token is malformed", "token malformed"}
      [] substr = "signing method" ->
            s \in {"invalid signing method",
                   "token validation failed: invalid signing method"}
      [] OTHER -> FALSE

\* ValidateToken: the error it returns, Null when the claims are returned
ValidateToken(j, tokenString) ==
    IF ValidateConfig(j) # Null THEN "invalid JWT configuration"
    ELSE IF tokenString.parse # Null THEN
        IF Contains(tokenString.parse, "expired") THEN "token expired"
        ELSE IF Contains(tokenString.parse, "not valid yet")
             THEN "token not valid yet"
        ELSE IF Contains(tokenString.parse, "malformed") THEN "token malformed"
        ELSE IF tokenString.parse = "invalid signing method"
             THEN "token validation failed: invalid signing method"
        ELSE "token validation failed: signature is invalid"
    ELSE IF validateClaims(j, tokenString) # Null THEN "claims validation failed"
    ELSE Null

\* Claims.HasRole
HasRole(claimRoles, requiredRoles) ==
    \E required \in requiredRoles :
        /\ TrimSpace(required) # ""
        /\ TrimSpace(required) \in claimRoles

\* ============================================================ middleware.go
MaxTokenSize == 8192

publicPaths == {"/health", "/dbping"}

isPublicPath(path) == path \in publicPaths

\* validateTokenFormat without the size limit
validateTokenFormat_noSize(tokenString) ==
    IF tokenString.size = 0 THEN "token cannot be empty"
    ELSE IF tokenString.segs # 3 THEN "invalid JWT token format"
    ELSE Null

validateTokenFormat(tokenString) ==
    IF tokenString.size = 0 THEN "token cannot be empty"
    ELSE IF tokenString.size > MaxTokenSize
         THEN "token size exceeds maximum allowed"
    ELSE IF tokenString.segs # 3 THEN "invalid JWT token format"
    ELSE Null

\* the answer of sendErrorResponse, or of the wrapped handler (code Null)
Answer(q, status, code, parsed, next) ==
    [q EXCEPT !.status = status, !.code = code, !.parsed = parsed,
              !.next = next, !.claims = (next /\ ~isPublicPath(q.path)),
              !.roles = IF next /\ ~isPublicPath(q.path) THEN q.token.roles
                        ELSE {}]

\* the request as AuthMiddleware receives it: header is the Authorization
\* value up to the token ("" for none, "Bearer " for the scheme it accepts)
Request(path, header, tokenString) ==
    [NoRequest EXCEPT !.path = path, !.header = header, !.token = tokenString]

\* AuthMiddleware without the expired branch of the error mapping
authError_noExpired(err) ==
    IF Contains(err, "signing method") THEN "INVALID_SIGNING_METHOD"
    ELSE IF Contains(err, "malformed") THEN "MALFORMED_TOKEN"
    ELSE "INVALID_TOKEN"

\* the code AuthMiddleware answers for an error of ValidateToken
authError(err) ==
    IF Contains(err, "expired") THEN "TOKEN_EXPIRED"
    ELSE IF Contains(err, "signing method") THEN "INVALID_SIGNING_METHOD"
    ELSE IF Contains(err, "malformed") THEN "MALFORMED_TOKEN"
    ELSE "INVALID_TOKEN"

AuthMiddleware(path, header, tokenString) ==
    /\ jwtManager.pc = "serving"
    /\ LET q == Request(path, header, tokenString) IN
       gate' =
         IF isPublicPath(path) THEN Answer(q, 200, Null, FALSE, TRUE)
         ELSE IF header = "" THEN
             Answer(q, 401, "MISSING_AUTH_HEADER", FALSE, FALSE)
         ELSE IF header # "Bearer " THEN
             Answer(q, 401, "INVALID_AUTH_FORMAT", FALSE, FALSE)
         ELSE IF tokenString.size = 0 THEN
             Answer(q, 401, "MISSING_TOKEN", FALSE, FALSE)
         ELSE IF validateTokenFormat(tokenString) # Null THEN
             Answer(q, 401, "INVALID_TOKEN_FORMAT", FALSE, FALSE)
         ELSE IF ValidateToken(jwtManager, tokenString) # Null THEN
             Answer(q, 401, authError(ValidateToken(jwtManager, tokenString)),
                    TRUE, FALSE)
         ELSE IF tokenString.user <= 0 THEN
             Answer(q, 401, "INVALID_USER_ID", TRUE, FALSE)
         ELSE IF tokenString.org <= 0 THEN
             Answer(q, 401, "INVALID_ORG_ID", TRUE, FALSE)
         ELSE IF tokenString.roles = {} THEN
             Answer(q, 401, "NO_ROLES", TRUE, FALSE)
         ELSE Answer(q, 200, Null, TRUE, TRUE)
    /\ UNCHANGED <<rls, policy, connVar, orgs, sites, nextSiteId, assets,
                   nextAssetId, switches, vlans, counters, users, nextUserId,
                   inflight, imp, jwtManager, resp>>

\* MustRole answering whenever the declared roles are all dropped
MustRole_anyRole(requiredRoles) ==
    /\ gate.next /\ gate.guard = "none"
    /\ gate' =
         IF ~gate.claims THEN
             [gate EXCEPT !.guard = "AUTHENTICATION_REQUIRED", !.status = 401,
                          !.declared = requiredRoles]
         ELSE IF requiredRoles = {} THEN
             [gate EXCEPT !.guard = "NO_ROLES_SPECIFIED", !.status = 500,
                          !.declared = requiredRoles]
         ELSE IF gate.roles = {} THEN
             [gate EXCEPT !.guard = "INSUFFICIENT_PERMISSIONS", !.status = 403,
                          !.declared = requiredRoles]
         ELSE [gate EXCEPT !.guard = "handler", !.declared = requiredRoles]
    /\ UNCHANGED <<rls, policy, connVar, orgs, sites, nextSiteId, assets,
                   nextAssetId, switches, vlans, counters, users, nextUserId,
                   inflight, imp, jwtManager, resp>>

\* MustRole(requiredRoles...) around a handler, entered when the middleware
\* before it called next
MustRole(requiredRoles) ==
    /\ gate.next /\ gate.guard = "none"
    /\ gate' =
         IF ~gate.claims THEN
             [gate EXCEPT !.guard = "AUTHENTICATION_REQUIRED", !.status = 401,
                          !.declared = requiredRoles]
         ELSE IF requiredRoles = {} THEN
             [gate EXCEPT !.guard = "NO_ROLES_SPECIFIED", !.status = 500,
                          !.declared = requiredRoles]
         ELSE IF ~HasRole(gate.roles,
                          {TrimSpace(role) : role \in
                             {x \in requiredRoles :
                                x # "" /\ RoleLen(x) <= MaxRoleLen}}) THEN
             [gate EXCEPT !.guard = "INSUFFICIENT_PERMISSIONS", !.status = 403,
                          !.declared = requiredRoles]
         ELSE [gate EXCEPT !.guard = "handler", !.declared = requiredRoles]
    /\ UNCHANGED <<rls, policy, connVar, orgs, sites, nextSiteId, assets,
                   nextAssetId, switches, vlans, counters, users, nextUserId,
                   inflight, imp, jwtManager, resp>>

\* ------------------------------------------------------------ inputs
SecretEnvs == {EnvSecret(0), EnvSecret(MinSecretLen - 1),
               EnvSecret(MinSecretLen), DefaultSecret}

ExpiryEnvs == {NoEnv, BadDuration, EnvDuration(0), EnvDuration(MinExpiry - 1),
               EnvDuration(MinExpiry), EnvDuration(MaxExpiry),
               EnvDuration(MaxExpiry + 1)}

Environments == {"", "production"}

Paths == {"/health", "/items"}

Headers == {"", "Basic ", "Bearer", "Bearer "}

\* the -roles arguments of jwtgen and the roles of the users who log in
RoleArgs == {{" viewer", ""}, {"org_admin", "project_admin"},
             {"role-of-51-bytes"}}

\* tokens this service signed, now or with an earlier key, and what clients
\* send instead of one
Tokens ==
    {NoToken}
    \cup {Token(size, segs, "token is malformed", 0, 0, {}, "") :
            size \in {1, MaxTokenSize + 1}, segs \in {1, 2, 4}}
    \cup {[GenerateToken(jwtManager, 7, org, roles) EXCEPT
              !.parse = parse, !.size = size] :
            org \in {1}, roles \in RoleArgs,
            parse \in {Null, "token is expired", "token is not valid yet",
                       "invalid signing method", "signature is invalid"},
            size \in {MaxTokenSize}}
    \cup {[GenerateToken(jwtManager, 7, 1, {"org_admin"}) EXCEPT
              !.parse = parse, !.size = MaxTokenSize + 1] :
            parse \in {Null, "token is expired"}}
    \cup {Token(1, 3, Null, user, org, roles, issuer) :
            user \in {0, 7}, org \in {0, 1}, roles \in {{}, {"viewer"}},
            issuer \in {jwtManager.issuer}}
    \cup {Token(1, 3, Null, 7, 1, {"viewer"}, "other")}

\* the role sets the route table declares
DeclaredRoles == {{}, {"org_admin"}, {"org_admin", "project_admin"},
                  {"viewer", "project_admin", "org_admin"}}

MainStep ==
    \E envSecret \in SecretEnvs, envExpiry \in ExpiryEnvs,
       environment \in Environments :
       main(envSecret, envExpiry, environment)

AuthMiddlewareStep ==
    \/ \E path \in publicPaths : AuthMiddleware(path, "", NoToken)
    \/ \E path \in Paths \ publicPaths, header \in Headers,
          tokenString \in Tokens :
          AuthMiddleware(path, header, tokenString)

MustRoleStep == \E requiredRoles \in DeclaredRoles : MustRole(requiredRoles)

NextAuth == MainStep \/ AuthMiddlewareStep \/ MustRoleStep

\* the gate does not touch the database
InitAuth == Init /\ ~rls /\ ~policy

SpecAuth == InitAuth /\ [][NextAuth]_vars

\* ================================================ import_excel (the tool)
\* The command-line importer reads its mapping from a YAML file and writes
\* through its own *sql.DB.  Its SET LOCAL runs outside a transaction, so the
\* session variable stays unset.  The mapping taken here: one sheet of VLANs,
\* to_asset {asset_type: vlan}, natural_key [name], columns Name -> name,
\* MgmtIP -> mgmt_ip, VLAN -> vlan_id, subtype asset_vlans with
\* subtype_fields {vlan_id: vlan_id}.
MaxToolRows == 3

ToolConn == 2

\* ImportStats; errors is len(stats.Errors)
NoStats == [read |-> 0, inserted |-> 0, updated |-> 0, skipped |-> 0,
            errors |-> 0]

\* a data row of the sheet; vlan 0 is an empty VLAN cell
ToolRows == [name : {"a", "b"}, ip : {"10.0.0.1", "10.0.0.2"},
             vlan : {0} \cup VlanIds]

\* stats.Errors = append(..); stats.Skipped++
rowFailed(stats) == [stats EXCEPT !.errors = @ + 1, !.skipped = @ + 1]

ToolResp(orgID, id, stage, stats) ==
    RespArg(Resp("import_excel", orgID, id, 0, stage, {}), stats)

\* one pass of the row loop of processSheet: buildAssetData,
\* findExistingAsset, then updateAsset or insertAsset, each statement
\* committing on its own
tool_processRow(orgID, siteID, rowData, c) ==
    /\ AssetFrame
    /\ UNCHANGED switches
    /\ LET stats == [(IF resp.op = "import_excel" THEN resp.arg ELSE NoStats)
                        EXCEPT !.read = @ + 1]
           existing == {a \in assets :
                          /\ a.org = orgID /\ a.site = siteID
                          /\ a.type = "vlan" /\ a.name = rowData.name
                          /\ RowVisible(c, a.org)}
       IN
       IF StmtError(c) THEN
           /\ UNCHANGED <<assets, nextAssetId, vlans, counters>>
           /\ resp' = ToolResp(orgID, 0, "find", rowFailed(stats))
       ELSE IF existing # {} THEN
           \* updateAsset: UPDATE assets, then the upsert of the subtype row,
           \* whose placeholders ($k+1 .. $2k+1) outnumber its arguments
           LET old == CHOOSE a \in existing :
                         \A b \in existing : a.id <= b.id
               new == [old EXCEPT !.ip = rowData.ip]
               A1  == (assets \ {old}) \cup {new}
           IN  /\ assets' = A1
               /\ counters' = trg_assets_refresh_counts("UPDATE", old, new, A1,
                                                        counters, c)
               /\ UNCHANGED <<nextAssetId, vlans>>
               /\ resp' = IF rowData.vlan # 0
                          THEN ToolResp(orgID, old.id, "subtype",
                                        rowFailed(stats))
                          ELSE ToolResp(orgID, old.id, "updated",
                                        [stats EXCEPT !.updated = @ + 1])
       ELSE
           \* insertAsset: INSERT INTO assets, then INSERT INTO asset_vlans
           LET id  == nextAssetId
               new == [id |-> id, org |-> orgID, site |-> siteID,
                       type |-> "vlan", name |-> rowData.name,
                       ip |-> rowData.ip, extras |-> {}]
               A1  == assets \cup {new}
           IN  /\ nextAssetId' = id + 1
               /\ IF \/ ~RowVisible(c, orgID)
                     \/ siteID \notin SiteIdsOf(sites) \/ orgID \notin orgs
                  THEN
                      /\ UNCHANGED <<assets, vlans, counters>>
                      /\ resp' = ToolResp(orgID, id, "asset", rowFailed(stats))
                  ELSE
                      /\ assets' = A1
                      /\ counters' = trg_assets_refresh_counts(
                                        "INSERT", new, new, A1, counters, c)
                      /\ IF rowData.vlan = 0 THEN
                             /\ UNCHANGED vlans
                             /\ resp' = ToolResp(orgID, id, "inserted",
                                           [stats EXCEPT !.inserted = @ + 1])
                         ELSE IF \/ ~SubRowVisible(c, orgID)
                                 \/ VlanTaken(A1, vlans, orgID, siteID,
                                              rowData.vlan, id)
                         THEN
                             /\ UNCHANGED vlans
                             /\ resp' = ToolResp(orgID, id, "subtype",
                                                 rowFailed(stats))
                         ELSE
                             /\ vlans' = vlans \cup
                                   {[asset |-> id, vlan |-> rowData.vlan]}
                             /\ resp' = ToolResp(orgID, id, "inserted",
                                           [stats EXCEPT !.inserted = @ + 1])

ToolRowStep ==
    /\ nextAssetId <= MaxAssetId + 1
    /\ resp.op = "import_excel" => resp.arg.read < MaxToolRows
    /\ \E orgID \in Callers, rowData \in ToolRows :
          tool_processRow(orgID, 1, rowData, ToolConn)

NextTool == ToolRowStep

SpecTool == Init /\ [][NextTool]_vars

\* ============================================ concurrent asset statements
\* Two autocommitted statements on assets running at the same time under
\* READ COMMITTED.  The row trigger runs inside the writing transaction: its
\* SELECT COUNT(*) sees the committed rows and the transaction's own write,
\* and its ON CONFLICT DO UPDATE stores that number (EXCLUDED.asset_count)
\* once the counter row is free, which is when the transaction commits.

\* SELECT COUNT(*) FROM assets WHERE org_id, site_id, asset_type match
snapshotCount(A, c, o, s, t) ==
    CountAssets({a \in A : RowVisible(c, a.org)}, o, s, t)

\* INSERT .. ON CONFLICT (org_id, site_id, asset_type) DO UPDATE
\*   SET asset_count = EXCLUDED.asset_count
upsertCount(C, o, s, t, n) ==
    {r \in C : ~(r.org = o /\ r.site = s /\ r.type = t)} \cup {Row(0, o, s, t, n)}

Tx(op, row, cnt) ==
    [pc |-> "written", op |-> op, org |-> row.org, conn |-> NoConn,
     row |-> row, cnt |-> cnt]

\* createAsset's INSERT INTO assets up to the trigger's count; the row is
\* not yet visible to the other transaction
txInsert(r, g, site, type, c) ==
    /\ inflight[r].pc = "idle"
    /\ LET new == [id |-> nextAssetId, org |-> g, site |-> site,
                   type |-> type, name |-> Null, ip |-> Null, extras |-> {}]
       IN  /\ inflight' = [inflight EXCEPT ![r] =
                  Tx("createAsset", new,
                     snapshotCount(assets \cup {new}, c, g, site, type))]
           /\ nextAssetId' = nextAssetId + 1
    /\ UNCHANGED <<rls, policy, connVar, orgs, sites, nextSiteId, assets,
                   switches, vlans, counters, users, nextUserId, imp,
                   jwtManager, gate, resp>>

\* deleteAsset's DELETE FROM assets up to the trigger's count; the row is
\* locked, so no other transaction is deleting it
txDelete(r, g, id, c) ==
    /\ inflight[r].pc = "idle"
    /\ \E old \in assets :
          /\ old.id = id /\ old.org = g
          /\ \A r2 \in Reqs : inflight[r2].pc = "written" => inflight[r2].row # old
          /\ inflight' = [inflight EXCEPT ![r] =
                 Tx("deleteAsset", old,
                    snapshotCount(assets \ {old}, c, old.org, old.site,
                                  old.type))]
    /\ UNCHANGED <<rls, policy, connVar, orgs, sites, nextSiteId, assets,
                   nextAssetId, switches, vlans, counters, users, nextUserId,
                   imp, jwtManager, gate, resp>>

\* the upsert of the counter row and the commit: the write and the counter
\* become visible together
txCommit(r) ==
    /\ inflight[r].pc = "written"
    /\ LET t == inflight[r] IN
       /\ assets' = IF t.op = "createAsset" THEN assets \cup {t.row}
                    ELSE assets \ {t.row}
       /\ counters' = upsertCount(counters, t.row.org, t.row.site, t.row.type,
                                  t.cnt)
       /\ resp' = Resp(t.op, t.org, t.row.id,
                       IF t.op = "createAsset" THEN 201 ELSE 204, "done", {})
    /\ inflight' = [inflight EXCEPT ![r] = Idle]
    /\ UNCHANGED <<rls, policy, connVar, orgs, sites, nextSiteId, nextAssetId,
                   switches, vlans, users, nextUserId, imp, jwtManager, gate>>

TxInsertStep ==
    /\ nextAssetId <= MaxAssetId + 1
    /\ \E r \in Reqs, g \in Callers, type \in AssetTypes :
          txInsert(r, g, 1, type, Pooled)

TxDeleteStep ==
    \E r \in Reqs, g \in Callers, id \in 1..(MaxAssetId + 1) :
       txDelete(r, g, id, Pooled)

TxCommitStep == \E r \in Reqs : txCommit(r)

NextTx == TxInsertStep \/ TxDeleteStep \/ TxCommitStep

\* a deployment without row security
InitTx == Init /\ ~rls /\ ~policy

SpecTx == InitTx /\ [][NextTx]_vars

\* ================================================ concurrent deleteUser
\* deleteUser as the statements it sends to s.DB: the lookup and the count
\* of the other active org_admins first, the DELETE afterwards, with nothing
\* holding the counted rows in between.

\* SELECT org_id, roles .. WHERE id = $1 and SELECT COUNT(*) .. AND id != $2
deleteUser_check(r, g, id, c) ==
    /\ inflight[r].pc = "idle"
    /\ UNCHANGED <<rls, policy, connVar, orgs, sites, nextSiteId, assets,
                   nextAssetId, switches, vlans, counters, users, nextUserId,
                   imp, jwtManager, gate>>
    /\ LET hit == {u \in users : u.id = id /\ RowVisible(c, u.org)}
       IN
       IF StmtError(c) THEN
           /\ resp' = Resp("deleteUser", g, id, 500, "user", {})
           /\ UNCHANGED inflight
       ELSE IF hit = {} THEN
           /\ resp' = Resp("deleteUser", g, id, 404, "user", {})
           /\ UNCHANGED inflight
       ELSE
           LET u == CHOOSE x \in hit : TRUE
           IN
           IF /\ containsRole(u.roles, "org_admin")
              /\ adminCount(users, u.org, id, c) = 0 THEN
               /\ resp' = Resp("deleteUser", g, id, 400, "last_admin", {})
               /\ UNCHANGED inflight
           ELSE
               /\ inflight' = [inflight EXCEPT ![r] =
                      [pc |-> "delete", op |-> "deleteUser", org |-> g,
                       conn |-> NoConn, id |-> id]]
               /\ UNCHANGED resp

\* DELETE FROM users WHERE id = $1 and the answer by RowsAffected
deleteUser_exec(r, c) ==
    /\ inflight[r].pc = "delete"
    /\ UNCHANGED <<rls, policy, connVar, orgs, sites, nextSiteId, assets,
                   nextAssetId, switches, vlans, counters, nextUserId, imp,
                   jwtManager, gate>>
    /\ LET id  == inflight[r].id
           hit == {u \in users : u.id = id /\ RowVisible(c, u.org)}
       IN
       /\ inflight' = [inflight EXCEPT ![r] = Idle]
       /\ IF StmtError(c) THEN
              /\ UNCHANGED users
              /\ resp' = Resp("deleteUser", inflight[r].org, id, 500, "delete", {})
          ELSE IF hit = {} THEN
              /\ UNCHANGED users
              /\ resp' = Resp("deleteUser", inflight[r].org, id, 404, "delete", {})
          ELSE
              /\ users' = users \ hit
              /\ resp' = Resp("deleteUser", inflight[r].org, id, 204, "done", {})

DelCreateUserStep ==
    /\ nextUserId <= MaxUserId
    /\ \E g \in Callers, reqOrg \in {Unset} \cup Orgs,
          roles \in {{"viewer"}, {"org_admin"}} :
          createUser(g, {"org_admin"}, TRUE, reqOrg, roles, TRUE, Pooled)

DeleteUserCheckStep ==
    \E r \in Reqs, g \in Callers, id \in UserIds :
       deleteUser_check(r, g, id, Pooled)

DeleteUserExecStep == \E r \in Reqs : deleteUser_exec(r, Pooled)

NextDel == DelCreateUserStep \/ DeleteUserCheckStep \/ DeleteUserExecStep

\* RLS_ENABLED with a database role that bypasses the policies
InitDel == InitUsers /\ rls /\ ~policy

SpecDel == InitDel /\ [][NextDel]_vars

\* ================================================================ claims
ReadOps == {"listAssets", "getAsset", "listSwitches", "listVLANs",
            "getSiteAssetCategories", "listSites", "getSite",
            "listUsers", "getUser"}

DataUnchanged == UNCHANGED <<assets, switches, vlans, counters>>

\* u is the one active user of its organization holding org_admin
OnlyActiveAdmin(U, u) ==
    /\ u \in U
    /\ containsRole(u.roles, "org_admin")
    /\ u.active
    /\ \A v \in U : (v.org = u.org /\ containsRole(v.roles, "org_admin")
                       /\ v.active) => v = u

\* C1: a read answered to a caller outside the main tenant carries no row of
\* another organization.
C1_TenantReadIsolation ==
    (resp.op \in ReadOps /\ resp.status = 200 /\ resp.org # MainTenant)
        => \A r \in resp.rows : r.org = resp.org

\* C2: no statement of a request runs on a connection whose
\* app.current_org_id holds the org_id of another request.
C2_NoTenantLeak ==
    (resp.stage = "query" /\ resp.arg # Unset) => resp.arg = resp.org

\* C3: the main tenant's GET /sites returns the sites of every organization.
C3_MainTenantListsAll ==
    (resp.op = "listSites" /\ resp.org = MainTenant /\ resp.status = 200)
        => \A x \in sites : SiteRow(x) \in resp.rows

\* C4 (as stated): an update or delete addressed to an asset of another
\* organization by a caller outside the main tenant changes no asset, subtype
\* or counter row and is answered 404.
C4_CrossTenantWriteNotFound ==
    [][\A a \in assets :
          (/\ resp'.op \in {"updateAsset", "deleteAsset"}
           /\ resp'.id = a.id
           /\ resp'.org # MainTenant
           /\ a.org # resp'.org)
          => (DataUnchanged /\ resp'.status = 404)]_vars

\* C4 (amended): such a request changes no asset, subtype or counter row; it
\* is answered 404, unless the update body is malformed (400, before any
\* lookup) or the statement itself fails in the database (500).
C4_CrossTenantWriteChangesNothing ==
    [][\A a \in assets :
          (/\ resp'.op \in {"updateAsset", "deleteAsset"}
           /\ resp'.id = a.id
           /\ resp'.org # MainTenant
           /\ a.org # resp'.org)
          => /\ DataUnchanged
             /\ \/ resp'.status = 404
                \/ /\ resp'.op = "updateAsset"
                   /\ resp'.status = 400
                   /\ resp'.stage = "validate"
                \/ resp'.status = 500 /\ StmtError(Pooled)]_vars

C4_Witness ==
    /\ resp.op \in {"updateAsset", "deleteAsset"}
    /\ resp.status = 404
    /\ resp.org # MainTenant
    /\ \E a \in assets : a.id = resp.id /\ a.org # resp.org

\* C5: a read, update or delete of a user of another organization by a caller
\* outside the main tenant is rejected and leaves the user row as it was.
C5_CrossOrgUserRejected ==
    [][\A u \in users :
          (/\ resp'.op \in {"getUser", "updateUser", "deleteUser"}
           /\ resp'.id = u.id
           /\ resp'.org # MainTenant
           /\ u.org # resp'.org)
          => (resp'.status \notin {200, 204} /\ u \in users')]_vars

\* C6: a well-formed create-user naming org_id 42 creates the user in org 42
\* for an org_admin of org 1, and is refused (403) without creating a user
\* for an org_admin of org 2.
C6_MainTenantEscalation ==
    (resp.op = "createUser" /\ resp.arg = 42 /\ resp.stage # "validate")
        => /\ resp.org = 1 =>
                /\ resp.status = 201
                /\ \E u \in users : u.id = resp.id /\ u.org = 42
           /\ resp.org = 2 =>
                /\ resp.status = 403
                /\ \A u \in users : u.id # resp.id

\* C7: for every (org, site, type) the counter row, when there is one, holds
\* the number of assets with those coordinates, and there is one whenever
\* that number is positive; a counter read answers with the current numbers.
C7_CounterLaw ==
    /\ \A o \in Orgs, s \in SiteIds, t \in AssetTypes :
          LET rows == {r \in counters : r.org = o /\ r.site = s /\ r.type = t}
          IN  /\ Cardinality(rows) <= 1
              /\ \A r \in rows : r.n = CountAssets(assets, o, s, t)
              /\ rows = {} => CountAssets(assets, o, s, t) = 0
    /\ (resp.op = "getSiteAssetCategories" /\ resp.status = 200) =>
          /\ \A r \in resp.rows :
                r.n = CountAssets(assets, resp.org, resp.id, r.type)
          /\ \A t \in AssetTypes :
                CountAssets(assets, resp.org, resp.id, t) > 0
                    => \E r \in resp.rows : r.type = t

\* an update changed asset_type: the old type's row went to 0, the new to 1
C7_Witness ==
    /\ resp.op = "updateAsset"
    /\ resp.status = 200
    /\ \E r1, r2 \in counters :
          /\ r1.org = resp.org /\ r2.org = resp.org
          /\ r1.site = r2.site
          /\ r1.n = 0 /\ r2.n = 1

\* C8: a create-asset whose subtype write fails leaves no asset row behind
\* and the counters as they were before the request.
C8_SubtypeFailureRollsBack ==
    [][(/\ resp'.op = "createAsset"
        /\ resp'.stage \in {"switch", "vlan"}
        /\ nextAssetId' # nextAssetId)
       => (assets' = assets /\ counters' = counters)]_vars

\* C9: a delete-user aimed at the one active org_admin of an organization
\* leaves the user row in place, and is answered with the last-admin
\* rejection whenever the lookup statement reached the row.
C9_LastAdminDeleteRejected ==
    [][\A u \in users :
          (/\ resp'.op = "deleteUser"
           /\ resp'.id = u.id
           /\ OnlyActiveAdmin(users, u))
          => /\ u \in users'
             /\ (~StmtError(Pooled) /\ RowVisible(Pooled, u.org))
                  => (resp'.status = 400 /\ resp'.stage = "last_admin")]_vars

\* the rejected delete, in an organization that has a second user
C9_Witness ==
    /\ resp.op = "deleteUser"
    /\ resp.stage = "last_admin"
    /\ \E u, v \in users :
          /\ u.id = resp.id
          /\ OnlyActiveAdmin(users, u)
          /\ v # u /\ v.org = u.org

\* C10: an update-user aimed at the one active org_admin of an organization
\* leaves that user active.
C10_LastAdminStaysActive ==
    [][\A u \in users :
          (/\ resp'.op = "updateUser"
           /\ resp'.id = u.id
           /\ OnlyActiveAdmin(users, u))
          => \E v \in users' : v.id = u.id /\ v.active]_vars
orgHasRows(id) ==
    \/ \E u \in users : u.org = id
    \/ \E x \in sites : x.org = id
    \/ \E a \in assets : a.org = id

\* C11: a delete-organization aimed at an organization that still has a
\* user, a site or an asset is rejected and the organization row remains.
C11_OrgWithRowsNotDeleted ==
    [][(resp'.op = "deleteOrganization" /\ orgHasRows(resp'.id))
       => (resp'.status # 204 /\ orgs' = orgs)]_vars

\* C12: while an import with dry_run=true runs -- whatever the file, whichever
\* rows fail, and also when it aborts on max_errors -- no step of it changes
\* assets, the subtype tables, the counters or the id sequence.
C12_DryRunPurity ==
    [][(imp'.pc # "idle" /\ imp'.opts.dry)
       => UNCHANGED <<assets, switches, vlans, counters, nextAssetId>>]_vars

\* a dry run over a non-empty database that counted rows as inserted or
\* updated, met failing rows and was aborted with the top-level error
C12_Witness ==
    /\ imp.pc = "done" /\ imp.opts.dry /\ imp.err
    /\ imp.before.assets # {}
    /\ imp.total.errors > 0
    /\ imp.total.inserted + imp.total.updated > 0

\* what the same call would have returned with dry_run=true, started from the
\* database state the finished import started from
dryRunOfLast ==
    importSheets(imp.before, NoTotals, <<>>, imp.file, 1,
                 [imp.opts EXCEPT !.dry = TRUE], ImpConn)

\* an import that got as far as its sheets has returned
importReturned == imp.pc = "done" /\ ~(imp.err /\ imp.sheets = <<>>)

\* C13: a finished import with dry_run=false reports the inserted, updated,
\* skipped and errors counts that the same file, options and starting state
\* give with dry_run=true.
C13_DryRunCountsAgree ==
    (importReturned /\ ~imp.opts.dry) => dryRunOfLast.total = imp.total

\* the step processes one more data row of the current sheet
rowProcessed == imp.pc = "rows" /\ imp'.pc = "rows" /\ imp'.ri = imp.ri + 1

\* C14: once the running total of row errors (finished sheets plus the
\* current sheet) exceeds max_errors, the import processes no further row.
C14_NoRowAfterMaxErrors ==
    [][rowProcessed => imp.total.errors + imp.cur.errors <= imp.opts.maxErrors]_vars

\* the same file imported once more, with the same options, right after the
\* finished import
secondPass == importSheets(DB, NoTotals, <<>>, imp.file, 1, imp.opts, ImpConn)

\* C15: after an import with dry_run=false has returned, importing the same
\* file again inserts no row and leaves assets and counters as the first pass
\* left them.
C15_SecondPassInsertsNothing ==
    (importReturned /\ ~imp.opts.dry) =>
        /\ secondPass.total.inserted = 0
        /\ secondPass.D.assets = assets
        /\ secondPass.D.counters = counters

importedNames == {a.name : a \in {x \in assets : x.org = imp.opts.org}}

\* C16: a dry_run=false import of the five-row file whose third data row has
\* an unparsable MgmtIP reports errors = 1 (sampled as row 4) and
\* inserted + updated = 4, and rows 1, 2, 4 and 5 are in the database while
\* the bad row is not.
C16_BadRowIsolated ==
    (importReturned /\ ~imp.opts.dry /\ imp.file = FiveRows) =>
        /\ imp.total.errors = 1
        /\ imp.total.inserted + imp.total.updated = 4
        /\ imp.sheets[1].samples = <<4>>
        /\ {"a", "b", "d", "e"} \subseteq importedNames
        /\ {a \in assets : a.name = "c"} = {a \in imp.before.assets : a.name = "c"}

\* the data row the next pass of the row loop works on
currentRow == imp.file[imp.si].rows[imp.ri]

\* the row has data, but a column the mapping types without "?" is empty
requiredMissing(rowData) ==
    /\ rowData # Blank
    /\ rowData.atype = Null \/ rowData.name = Null \/ rowData.ip = Null

\* C17: processing a row in which a required column is absent or empty adds
\* one to the sheet's error count, counts no insert or update, and writes
\* nothing to assets.
C17_RequiredMissingIsError ==
    [][(rowProcessed /\ requiredMissing(currentRow))
       => /\ imp'.cur.errors = imp.cur.errors + 1
          /\ imp'.cur.inserted = imp.cur.inserted
          /\ imp'.cur.updated = imp.cur.updated
          /\ assets' = assets]_vars

\* C18: no sheet summary of an import carries more than N error samples (N
\* taken as 10), however many of the sheet's rows fail.
C18_SamplesBounded ==
    \A i \in 1..Len(imp.sheets) : Len(imp.sheets[i].samples) <= 10

\* the sum of len(data) over the pages at offset, offset + limit, ... up to
\* and including the first empty page, the filters and the table held fixed
RECURSIVE pagesSum(_, _, _)
pagesSum(matching, limit, offset) ==
    LET w == windowed(matching, limit, offset)
    IN  IF w.data = <<>> THEN 0
        ELSE Len(w.data) + pagesSum(matching, limit, offset + limit)


\* a 200 response of one of the paged list handlers
listed == resp.op \in {"listAssets", "listSites"} /\ resp.status = 200

\* the rows the WHERE clause of the last list request selects
lastMatching ==
    IF resp.op = "listAssets"
    THEN assetsMatching(resp.org, 0, resp.filter, dbFrom(NoConn, Pooled))
    ELSE sitesMatching(resp.org, Pooled)

C20_TotalIsMatchCount ==
    listed => resp.page.total = Cardinality(lastMatching)

\* E united with E': the members of E whose key E' does not name, and E'
mergeExtras(E, E2) ==
    {p \in E : \A q \in E2 : q[1] # p[1]} \cup E2

\* C21: after an update answered 200 whose body carries an extras object E',
\* the asset's extras, as the update returns them and as a read finds them
\* stored, are the previous extras E united with E'.
C21_ExtrasMerged ==
    [][\A g \in Callers, id \in AssetIds, e \in ExtrasReqs \ {NilExtras} :
          (/\ updateAsset(g, id, NotGiven, "none", FALSE, NoVlan, e,
                          Pooled, Pooled, Pooled)
           /\ resp'.status = 200)
          => \A a \in assets : a.id = id =>
                /\ \E b \in assets' : b.id = id /\ b.extras = mergeExtras(a.extras, e.m)
                /\ \A r \in resp'.rows : r.extras = mergeExtras(a.extras, e.m)]_vars

\* the last request was for a protected path
protectedRequest == gate.path # "" /\ ~isPublicPath(gate.path)

\* AuthMiddleware answered 401 with this code and called nothing further
refused(code) ==
    gate.status = 401 /\ gate.code = code /\ ~gate.next /\ gate.guard = "none"

\* a token of this service, within the size limit, whose exp has passed
expiredToken(tokenString) ==
    /\ tokenString.size \in 1..MaxTokenSize
    /\ tokenString.segs = 3
    /\ tokenString.parse = "token is expired"

\* C22: on a protected path a request without Authorization header, with a
\* header that does not start with "Bearer ", with an empty token, with a
\* token that is not three segments, or with an expired token is answered
\* 401 with the code of its class, and the wrapped handler is not called.
C22_AuthFailureCodes ==
    protectedRequest =>
       /\ gate.header = "" => refused("MISSING_AUTH_HEADER")
       /\ gate.header \notin {"", "Bearer "} => refused("INVALID_AUTH_FORMAT")
       /\ gate.header = "Bearer " /\ gate.token.size = 0 =>
             refused("MISSING_TOKEN")
       /\ gate.header = "Bearer " /\ gate.token.size > 0 /\ gate.token.segs # 3
             => refused("INVALID_TOKEN_FORMAT")
       /\ gate.header = "Bearer " /\ expiredToken(gate.token) =>
             refused("TOKEN_EXPIRED")

C22_Witness ==
    /\ protectedRequest
    /\ gate.header = "Bearer "
    /\ expiredToken(gate.token)
    /\ gate.code = "TOKEN_EXPIRED"

\* C23: under a role guard with a non-empty declared set R, and a context
\* that carries claims, the handler runs iff the context's roles and R share
\* a role; otherwise the answer is 403 INSUFFICIENT_PERMISSIONS.
C23_RoleGuard ==
    gate.guard # "none" /\ gate.claims /\ gate.declared # {} =>
       /\ gate.guard = "handler" <=> gate.roles \cap gate.declared # {}
       /\ gate.guard # "handler" =>
             gate.guard = "INSUFFICIENT_PERMISSIONS" /\ gate.status = 403

C23_Witness ==
    /\ gate.guard = "INSUFFICIENT_PERMISSIONS"
    /\ gate.roles = {"viewer"}
    /\ gate.declared = {"org_admin", "project_admin"}

\* the configuration the process was started with is one the service must
\* refuse
refusedConfig ==
    \/ jwtManager.secret.len < MinSecretLen
    \/ jwtManager.expiry < MinExpiry
    \/ jwtManager.expiry > MaxExpiry
    \/ jwtManager.secret.default /\ jwtManager.environment = "production"

C27_FormatBeforeCrypto ==
    /\ protectedRequest
    /\ gate.header = "Bearer "
    /\ gate.token.size > MaxTokenSize \/ gate.token.segs # 3
    => ~gate.parsed /\ gate.status = 401 /\ ~gate.next

C27_Witness ==
    /\ protectedRequest
    /\ gate.header = "Bearer "
    /\ gate.token.size > MaxTokenSize
    /\ gate.token.segs = 3
    /\ gate.token.parse = Null
    /\ gate.token.roles # {}
    /\ gate.code = "INVALID_TOKEN_FORMAT"

\* C25: with RLS_ENABLED, a statement of a request runs on the connection
\* the request took in withDBConn and SET its tenant variable on.
C25_BoundConnection ==
    [][\A r \in Reqs :
          (/\ rlsEnabled
           /\ inflight[r].pc \in {"insert", "query"}
           /\ inflight'[r].pc # inflight[r].pc)
          => (/\ inflight[r].conn # NoConn
              /\ resp'.id = inflight[r].conn
              /\ resp'.arg = inflight[r].org)]_vars

\* C26: a request that has ended holds no connection, no connection is held
\* by two requests, and no request calls Close on a connection it never
\* acquired (the nil *sql.Conn that withDBConn returns with RLS off).
C26_ReleasedOnce ==
    /\ \A r \in Reqs : inflight[r].pc = "idle" => inflight[r].conn = NoConn
    /\ \A r1, r2 \in Reqs :
          r1 # r2 /\ inflight[r1].conn = inflight[r2].conn
             => inflight[r1].conn = NoConn
    /\ ~(resp.stage = "panic" /\ resp.id = NoConn)

\* C28: an import row whose subtype write fails leaves no trace of its asset
\* write (assets and counters as before the row) and is counted as an error.
C28_RowAtomic ==
    [][(resp'.op = "import_excel" /\ resp'.stage = "subtype")
       => (/\ assets' = assets
           /\ counters' = counters
           /\ resp'.arg.errors > 0)]_vars

\* C29: once concurrent asset writes have all committed, every counter row
\* holds the number of assets with its coordinates.
C29_ConcurrentCounter ==
    (\A r \in Reqs : inflight[r].pc = "idle") =>
       \A k \in counters : k.n = CountAssets(assets, k.org, k.site, k.type)

\* the active org_admins of an organization
activeAdmins(U, o) ==
    {u \in U : u.org = o /\ containsRole(u.roles, "org_admin") /\ u.active}

\* C30: delete-user requests, also when they run concurrently, never take
\* the last active org_admin from an organization that has one.
C30_ConcurrentLastAdmin ==
    [][\A o \in Orgs :
          activeAdmins(users, o) # {} => activeAdmins(users', o) # {}]_vars

====
